---------------------------- MODULE Spec2Model ----------------------------
(***************************************************************************)
(* Model of src/epi-aws.js: the credentials holder (EpiAWSNode), the       *)
(* download node (EpiAmazonS3DownloadNode), the upload node                *)
(* (EpiAmazonS3UploadNode) and detectContentType.                          *)
(*                                                                         *)
(* JavaScript values are tagged records (field t is the type tag).  A      *)
(* string is a sequence of one-character strings, a Buffer is a sequence   *)
(* of runs <<byte, count>> (run-length form of its bytes, adjacent runs    *)
(* of one byte merged), a message is a function from the names of the      *)
(* fields it has to their values.                                          *)
(***************************************************************************)
EXTENDS Integers, Sequences, FiniteSets, TLC

VARIABLES
    nodeType,     \* "download" | "upload": which constructor built the node
    awsConfig,    \* RED.nodes.getNode(n.aws): Undefined or the config node
    node,         \* this.bucket, this.filename, this.contentType, this.acl
    s3Client,     \* the closure variable s3Client: "null" | "client"
    registered,   \* TRUE iff node.on("input") / node.on("close") were reached
    constructed,  \* number of S3Client constructions
    destroyed,    \* number of s3Client.destroy() calls
    closed,       \* TRUE iff a close event was delivered
    nodeLog,      \* node.warn / node.error calls of the constructor
    status,       \* the node's status slot (last node.status argument)
    delivered,    \* TRUE iff the host delivered an input event to the node
    req           \* per call of the input handler: its frame and its effects

vars == <<nodeType, awsConfig, node, s3Client, registered, constructed,
          destroyed, closed, nodeLog, status, delivered, req>>

-----------------------------------------------------------------------------
(* Bounds of the model *)

\* chunks one response body stream delivers at most
MaxChunks == 3
\* input handler calls that can be in flight together (SpecConc)
MaxInFlight == 2

-----------------------------------------------------------------------------
(* Constants of src/epi-aws.js *)

MiB == 1024 * 1024
GiB == 1024 * 1024 * 1024
MAX_DOWNLOAD_SIZE == 100 * 1024 * 1024
\* 5 * 1024 * 1024 * 1024 as whole GiB plus bytes (beyond 32-bit integers)
MAX_UPLOAD_SIZE == [gib |-> 5, rem |-> 0]
PROGRESS_UPDATE_INTERVAL == 1024 * 1024

-----------------------------------------------------------------------------
(* JavaScript values *)

Undefined == [t |-> "undefined"]
Null == [t |-> "null"]
Str(s) == [t |-> "string", s |-> s]
Num(n) == [t |-> "number", n |-> n]
Bool(b) == [t |-> "boolean", v |-> b]
\* a Buffer holding the bytes that the runs spell out
Buf(runs) == [t |-> "buffer", runs |-> runs]
\* a plain object: its own enumerable properties in insertion order
Obj(props) == [t |-> "object", props |-> props, cyclic |-> FALSE]
\* an object that refers to itself through property self
CyclicObj == [t |-> "object", props |-> <<>>, cyclic |-> TRUE]
Arr(elems) == [t |-> "array", elems |-> elems]

\* ToBoolean
Truthy(v) ==
    CASE v.t = "undefined" -> FALSE
      [] v.t = "null" -> FALSE
      [] v.t = "string" -> v.s # <<>>
      [] v.t = "number" -> v.n # 0
      [] v.t = "boolean" -> v.v
      [] OTHER -> TRUE

\* a || b
Or(a, b) == IF Truthy(a) THEN a ELSE b

\* typeof v (Buffers, arrays, errors and null are objects)
TypeOf(v) ==
    CASE v.t = "undefined" -> "undefined"
      [] v.t = "string" -> "string"
      [] v.t = "number" -> "number"
      [] v.t = "boolean" -> "boolean"
      [] OTHER -> "object"

IsBuffer(v) == v.t = "buffer"

\* msg.f: the value of a field, undefined when the message lacks it
Get(m, f) == IF f \in DOMAIN m THEN m[f] ELSE Undefined

\* msg.f = v
Put(m, f, v) == [g \in (DOMAIN m) \cup {f} |-> IF g = f THEN v ELSE m[g]]


\* {...a, ...b}: the fields of both, b's values where both have the field
Merge(a, b) ==
    [g \in (DOMAIN a) \cup (DOMAIN b) |-> IF g \in DOMAIN b THEN b[g] ELSE a[g]]

\* an object literal with the one field f
Field(f, v) == [g \in {f} |-> v]

\* the object literal {}
EmptyMsg == [g \in {} |-> Undefined]

-----------------------------------------------------------------------------
(* Buffers: a sequence of runs <<byte, count>>, count > 0, adjacent runs of  *)
(* different bytes                                                          *)

RECURSIVE RunsLen(_)
\* the number of bytes of a run sequence
RunsLen(runs) ==
    IF runs = <<>> THEN 0 ELSE runs[1][2] + RunsLen(Tail(runs))

\* buf.length, for Buffers below 2 GiB
ByteLength(buf) == RunsLen(buf.runs)

\* the bytes of a followed by the bytes of b
AppendRuns(a, b) ==
    IF a = <<>> THEN b
    ELSE IF b = <<>> THEN a
    ELSE IF a[Len(a)][1] = b[1][1]
         THEN SubSeq(a, 1, Len(a) - 1)
                 \o << <<b[1][1], a[Len(a)][2] + b[1][2]>> >>
                 \o Tail(b)
         ELSE a \o b

RECURSIVE ConcatRuns(_)
ConcatRuns(bufs) ==
    IF bufs = <<>> THEN <<>>
    ELSE AppendRuns(bufs[1].runs, ConcatRuns(Tail(bufs)))

\* Buffer.concat(list)
BufferConcat(bufs) == Buf(ConcatRuns(bufs))

RECURSIVE TakeRuns(_, _)
\* the first n bytes
TakeRuns(runs, n) ==
    IF n = 0 \/ runs = <<>> THEN <<>>
    ELSE IF runs[1][2] <= n
         THEN <<runs[1]>> \o TakeRuns(Tail(runs), n - runs[1][2])
         ELSE << <<runs[1][1], n>> >>

RECURSIVE DropRuns(_, _)
\* all but the first n bytes
DropRuns(runs, n) ==
    IF n = 0 \/ runs = <<>> THEN runs
    ELSE IF runs[1][2] <= n
         THEN DropRuns(Tail(runs), n - runs[1][2])
         ELSE << <<runs[1][1], runs[1][2] - n>> >> \o Tail(runs)

-----------------------------------------------------------------------------
(* Texts, error objects, statuses *)

\* a raw (not localized) text
Raw(s) == [raw |-> s]
NoArg == [none |-> TRUE]

\* RED._(key, args): the localized text for key, filled with args
I18n(key, arg) == [key |-> key, arg |-> arg]

\* an Error (or service exception) object; metadata is its $metadata
Err(id, name, message, metadata) ==
    [t |-> "error", id |-> id, name |-> name, message |-> message,
     metadata |-> metadata]

\* err.toString() of an Error: its name alone when the message is empty
ErrToString(err) ==
    IF err.message = Raw("") THEN Raw(err.name)
    ELSE [name |-> err.name, message |-> err.message]

\* err.message || err.toString()
ErrText(err) == IF err.message # Raw("") THEN err.message ELSE ErrToString(err)

\* node.status({fill, shape, text})
Status(fill, shape, text) == [fill |-> fill, shape |-> shape, text |-> text]
\* node.status({})
StatusCleared == [fill |-> "none", shape |-> "none", text |-> Raw("")]
StatusErrorRing == Status("red", "ring", Raw("aws.status.error"))
StatusError == Status("red", "dot", Raw("aws.status.error"))
StatusDownloading == Status("blue", "dot", Raw("aws.status.downloading"))
StatusUploading == Status("blue", "dot", Raw("aws.status.uploading"))
StatusProgress(mb) ==
    Status("blue", "dot", I18n("aws.status.download-progress", [size |-> mb]))

-----------------------------------------------------------------------------
(* The credentials holder and the construction of a transfer node *)

\* EpiAWSNode with || in place of && between the two keys
EpiAWSNodeEitherKey(credentials) ==
    [credentials |-> credentials,
     awsCredentials |->
        IF /\ credentials # Undefined
           /\ \/ Truthy(credentials.accesskeyid)
              \/ Truthy(credentials.secretaccesskey)
        THEN [accessKeyId |-> credentials.accesskeyid,
              secretAccessKey |-> credentials.secretaccesskey]
        ELSE Null]

\* EpiAWSNode: the config node built from this.credentials
EpiAWSNode(credentials) ==
    [credentials |-> credentials,
     awsCredentials |->
        IF /\ credentials # Undefined
           /\ Truthy(credentials.accesskeyid)
           /\ Truthy(credentials.secretaccesskey)
        THEN [accessKeyId |-> credentials.accesskeyid,
              secretAccessKey |-> credentials.secretaccesskey]
        ELSE Null]

\* MissingCredentials without the test of awsCredentials
MissingConfigOnly(cfg) == cfg = Undefined

\* the constructors' test: !this.awsConfig || !this.awsConfig.awsCredentials
MissingCredentials(cfg) ==
    \/ cfg = Undefined
    \/ cfg.awsCredentials = Null

\* the fields the constructors copy from the deployed configuration n
NodeConfig(type, n) ==
    IF type = "download"
    THEN [bucket |-> n.bucket, filename |-> Or(n.filename, Str(<<>>))]
    ELSE [bucket |-> n.bucket, filename |-> Or(n.filename, Str(<<>>)),
          contentType |-> Or(n.contentType, Str(<<>>)),
          acl |-> Or(n.acl, Str(<<>>))]

\* the frame of one call of the input handler, with what it did so far
IdleReq ==
    [pc |-> "idle",            \* idle | sending | streaming | done
     outcome |-> "none",       \* rejected | success | failed | threw
     orig |-> EmptyMsg,        \* the message as it was delivered
     msg |-> EmptyMsg,         \* the message object, written in place
     bucket |-> Undefined,     \* const bucket
     filename |-> Undefined,   \* const filename
     contentType |-> Undefined,
     acl |-> Undefined,
     body |-> Undefined,       \* let body (upload)
     commands |-> <<>>,        \* commands handed to s3Client.send
     chunks |-> <<>>,          \* const chunks
     totalSize |-> 0,          \* let totalSize
     lastProgressUpdate |-> 0, \* let lastProgressUpdate
     object |-> <<>>,          \* the bytes of the object the response streams
     rest |-> <<>>,            \* the bytes response.Body has yet to deliver
     received |-> 0,           \* chunks the stream delivered
     response |-> Undefined,   \* const response (upload)
     caught |-> Undefined,     \* the err of the catch block
     uncaught |-> Undefined,   \* what the handler threw outside its try
     sent |-> <<>>,            \* node.send arguments
     errors |-> <<>>,          \* node.error texts
     statuses |-> <<>>]        \* node.status arguments

-----------------------------------------------------------------------------
(* Effects of the handlers on the frame of the call *)

\* node.error(text, msg)
Report(f, text) == [f EXCEPT !.errors = Append(@, text)]

\* node.status(st)
SetStatus(f, st) == [f EXCEPT !.statuses = Append(@, st)]

\* Send with a new message of the result fields in place of msg
SendResultOnly(f) ==
    [f EXCEPT !.sent = Append(@,
        [g \in (DOMAIN f.msg) \cap {"payload", "error", "bucket", "filename"}
            |-> f.msg[g]])]

\* node.send(msg)
Send(f) == [f EXCEPT !.sent = Append(@, f.msg)]

\* Reject that also sends the message on, as the catch blocks do
RejectAndSend(f, key, arg) ==
    [Send(SetStatus(Report(f, I18n(key, arg)), StatusError))
        EXCEPT !.pc = "done", !.outcome = "rejected"]

\* Reject after the resolved bucket and filename were written to msg
RejectWritesBack(f, key, arg) ==
    [SetStatus(Report([f EXCEPT !.msg = Put(Put(@, "bucket", f.bucket),
                                           "filename", f.filename)],
                      I18n(key, arg)), StatusError)
        EXCEPT !.pc = "done", !.outcome = "rejected"]

\* a validation branch: node.error, red status, return
Reject(f, key, arg) ==
    [SetStatus(Report(f, I18n(key, arg)), StatusError)
        EXCEPT !.pc = "done", !.outcome = "rejected"]

\* the status slot after a step that took the frame from before to after
StatusAfter(before, after, old) ==
    IF Len(after.statuses) > Len(before.statuses)
    THEN after.statuses[Len(after.statuses)]
    ELSE old

\* the TypeError of s3Client.send when s3Client is null
NullClientError ==
    Err(0, "TypeError", Raw("Cannot read properties of null (reading 'send')"),
        Undefined)

\* new Error(RED._("aws.error.size-limit-exceeded", { size: 100 }))
SizeLimitError ==
    Err(1, "Error",
        I18n("aws.error.size-limit-exceeded",
             [size |-> (MAX_DOWNLOAD_SIZE \div 1024) \div 1024]),
        Undefined)

\* err.$metadata && err.$metadata.httpStatusCode
HttpStatusCode(err) ==
    IF err.metadata = Undefined THEN 0 ELSE err.metadata.httpStatusCode

-----------------------------------------------------------------------------
(* EpiAmazonS3DownloadNode: the input handler *)

\* DownloadErrorMessage without the case for 400
DownloadErrorMessageNo400(err, bucket, filename) ==
    CASE HttpStatusCode(err) = 404 ->
            I18n("aws.error.file-not-found",
                 [filename |-> filename, bucket |-> bucket])
      [] HttpStatusCode(err) = 403 -> I18n("aws.error.access-denied", NoArg)
      [] OTHER -> ErrText(err)

\* the switch of the download catch block: the text put into the log
DownloadErrorMessage(err, bucket, filename) ==
    CASE HttpStatusCode(err) = 404 ->
            I18n("aws.error.file-not-found",
                 [filename |-> filename, bucket |-> bucket])
      [] HttpStatusCode(err) = 403 -> I18n("aws.error.access-denied", NoArg)
      [] HttpStatusCode(err) = 400 -> I18n("aws.error.invalid-request", NoArg)
      [] OTHER -> ErrText(err)

\* DownloadCatch that logs only: no null payload, no node.send
DownloadCatchLogOnly(f, err) ==
    LET text == I18n("aws.error.download-failed",
                     [err |-> DownloadErrorMessage(err, f.bucket, f.filename)])
        f1 == [f EXCEPT !.msg = Put(f.msg, "error", err), !.caught = err]
    IN  [SetStatus(Report(f1, text), StatusError)
            EXCEPT !.pc = "done", !.outcome = "failed"]

\* the catch block of the download handler
DownloadCatch(f, err) ==
    LET m == Put(Put(f.msg, "error", err), "payload", Null)
        text == I18n("aws.error.download-failed",
                     [err |-> DownloadErrorMessage(err, f.bucket, f.filename)])
        f1 == [f EXCEPT !.msg = m, !.caught = err]
    IN  [Send(SetStatus(Report(f1, text), StatusError))
            EXCEPT !.pc = "done", !.outcome = "failed"]

\* new GetObjectCommand({ Bucket: bucket, Key: filename })
GetObjectCommand(bucket, filename) ==
    [type |-> "GetObject", input |-> [Bucket |-> bucket, Key |-> filename]]

\* Resolve with the request's field taking precedence
ResolveRequestFirst(configured, requested) == Or(requested, configured)

\* const bucket = node.bucket || msg.bucket (and likewise the filename)
Resolve(configured, requested) == Or(configured, requested)

\* s3Client.send(command) inside the try block of the download handler
DownloadSend(f, command) ==
    IF s3Client = "null"
    THEN DownloadCatch(f, NullClientError)
    ELSE [f EXCEPT !.pc = "sending", !.commands = Append(@, command)]

\* the validation of the download handler: the error of the first check
\* that fails, "" when all pass
DownloadInvalid(bucket, filename) ==
    IF ~Truthy(bucket) THEN "aws.error.no-bucket-specified"
    ELSE IF ~Truthy(filename) THEN "aws.error.no-filename-specified"
    ELSE ""

\* the download handler from its entry to its first await
DownloadStart(m) ==
    LET bucket == Resolve(node.bucket, Get(m, "bucket"))
        filename == Resolve(node.filename, Get(m, "filename"))
        f0 == [IdleReq EXCEPT !.orig = m, !.msg = m,
                              !.bucket = bucket, !.filename = filename]
    IN  IF DownloadInvalid(bucket, filename) # ""
        THEN Reject(f0, DownloadInvalid(bucket, filename), NoArg)
        ELSE LET m1 == Put(Put(m, "bucket", bucket), "filename", filename)
                 f1 == SetStatus([f0 EXCEPT !.msg = m1], StatusDownloading)
             IN  DownloadSend(f1, GetObjectCommand(bucket, filename))

\* DownloadChunk with totalSize declared in the node, not in the handler:
\* all calls in flight add to one counter
DownloadChunkSharedTotal(f, chunk) ==
    LET shared == CHOOSE n \in {req[r].totalSize : r \in DOMAIN req} :
                      \A r \in DOMAIN req : req[r].totalSize <= n
        totalSize == shared + ByteLength(chunk)
        currentMB == totalSize \div PROGRESS_UPDATE_INTERVAL
        f1 == [f EXCEPT !.totalSize = totalSize]
        f2 == [f1 EXCEPT !.chunks = Append(@, chunk)]
    IN  IF totalSize > MAX_DOWNLOAD_SIZE
        THEN DownloadCatch(f1, SizeLimitError)
        ELSE IF currentMB > f.lastProgressUpdate
        THEN SetStatus([f2 EXCEPT !.lastProgressUpdate = currentMB],
                       StatusProgress(currentMB))
        ELSE f2

\* DownloadChunk that reports progress when the total is a multiple of 1 MiB
DownloadChunkModulo(f, chunk) ==
    LET totalSize == f.totalSize + ByteLength(chunk)
        currentMB == totalSize \div PROGRESS_UPDATE_INTERVAL
        f1 == [f EXCEPT !.totalSize = totalSize]
        f2 == [f1 EXCEPT !.chunks = Append(@, chunk)]
    IN  IF totalSize > MAX_DOWNLOAD_SIZE
        THEN DownloadCatch(f1, SizeLimitError)
        ELSE IF totalSize % PROGRESS_UPDATE_INTERVAL = 0
        THEN SetStatus([f2 EXCEPT !.lastProgressUpdate = currentMB],
                       StatusProgress(currentMB))
        ELSE f2

\* DownloadChunk that compares the total before it adds the chunk's length
DownloadChunkCheckFirst(f, chunk) ==
    LET totalSize == f.totalSize + ByteLength(chunk)
        currentMB == totalSize \div PROGRESS_UPDATE_INTERVAL
        f2 == [f EXCEPT !.totalSize = totalSize, !.chunks = Append(@, chunk)]
    IN  IF f.totalSize > MAX_DOWNLOAD_SIZE
        THEN DownloadCatch(f, SizeLimitError)
        ELSE IF currentMB > f.lastProgressUpdate
        THEN SetStatus([f2 EXCEPT !.lastProgressUpdate = currentMB],
                       StatusProgress(currentMB))
        ELSE f2

\* DownloadChunk that pushes the chunk before it compares the total
DownloadChunkPushFirst(f, chunk) ==
    LET totalSize == f.totalSize + ByteLength(chunk)
        currentMB == totalSize \div PROGRESS_UPDATE_INTERVAL
        f2 == [f EXCEPT !.totalSize = totalSize, !.chunks = Append(@, chunk)]
    IN  IF totalSize > MAX_DOWNLOAD_SIZE
        THEN DownloadCatch(f2, SizeLimitError)
        ELSE IF currentMB > f.lastProgressUpdate
        THEN SetStatus([f2 EXCEPT !.lastProgressUpdate = currentMB],
                       StatusProgress(currentMB))
        ELSE f2

\* DownloadChunk that compares the chunk's own length against the limit
DownloadChunkPerChunkLimit(f, chunk) ==
    LET totalSize == f.totalSize + ByteLength(chunk)
        currentMB == totalSize \div PROGRESS_UPDATE_INTERVAL
        f1 == [f EXCEPT !.totalSize = totalSize]
        f2 == [f1 EXCEPT !.chunks = Append(@, chunk)]
    IN  IF ByteLength(chunk) > MAX_DOWNLOAD_SIZE
        THEN DownloadCatch(f1, SizeLimitError)
        ELSE IF currentMB > f.lastProgressUpdate
        THEN SetStatus([f2 EXCEPT !.lastProgressUpdate = currentMB],
                       StatusProgress(currentMB))
        ELSE f2

\* DownloadChunk that refuses a total of exactly the limit (>= for >)
DownloadChunkAtLimit(f, chunk) ==
    LET totalSize == f.totalSize + ByteLength(chunk)
        currentMB == totalSize \div PROGRESS_UPDATE_INTERVAL
        f1 == [f EXCEPT !.totalSize = totalSize]
        f2 == [f1 EXCEPT !.chunks = Append(@, chunk)]
    IN  IF totalSize >= MAX_DOWNLOAD_SIZE
        THEN DownloadCatch(f1, SizeLimitError)
        ELSE IF currentMB > f.lastProgressUpdate
        THEN SetStatus([f2 EXCEPT !.lastProgressUpdate = currentMB],
                       StatusProgress(currentMB))
        ELSE f2

\* DownloadChunk without the size check
DownloadChunkNoLimit(f, chunk) ==
    LET totalSize == f.totalSize + ByteLength(chunk)
        currentMB == totalSize \div PROGRESS_UPDATE_INTERVAL
        f2 == [f EXCEPT !.totalSize = totalSize, !.chunks = Append(@, chunk)]
    IN  IF currentMB > f.lastProgressUpdate
        THEN SetStatus([f2 EXCEPT !.lastProgressUpdate = currentMB],
                       StatusProgress(currentMB))
        ELSE f2

\* one turn of the for await loop, for the chunk the stream delivered
DownloadChunk(f, chunk) ==
    LET totalSize == f.totalSize + ByteLength(chunk)
        currentMB == totalSize \div PROGRESS_UPDATE_INTERVAL
        f1 == [f EXCEPT !.totalSize = totalSize]
        f2 == [f1 EXCEPT !.chunks = Append(@, chunk)]
    IN  IF totalSize > MAX_DOWNLOAD_SIZE
        THEN DownloadCatch(f1, SizeLimitError)
        ELSE IF currentMB > f.lastProgressUpdate
        THEN SetStatus([f2 EXCEPT !.lastProgressUpdate = currentMB],
                       StatusProgress(currentMB))
        ELSE f2

\* DownloadComplete that leaves the status as the loop wrote it
DownloadCompleteKeepsStatus(f) ==
    LET m == Put(f.msg, "payload", BufferConcat(f.chunks))
    IN  [Send([f EXCEPT !.msg = m])
            EXCEPT !.pc = "done", !.outcome = "success"]

\* the end of the loop: payload, cleared status, send
DownloadComplete(f) ==
    LET m == Put(f.msg, "payload", BufferConcat(f.chunks))
    IN  [Send(SetStatus([f EXCEPT !.msg = m], StatusCleared))
            EXCEPT !.pc = "done", !.outcome = "success"]

-----------------------------------------------------------------------------
(* Strings: sequences of characters.  A character is written as the one-   *)
(* character string of it when it is printable ASCII, and by its code      *)
(* point name otherwise ("U+0060", "U+00E9", "U+20AC").                    *)

\* the printable ASCII characters, code points 32 to 126 in order
AsciiChars ==
    <<
       " ", "!", "\"", "#", "$", "%", "&", "'", "(", ")", "*", "+",
       ",", "-", ".", "/", "0", "1", "2", "3", "4", "5", "6", "7",
       "8", "9", ":", ";", "<", "=", ">", "?", "@", "A", "B", "C",
       "D", "E", "F", "G", "H", "I", "J", "K", "L", "M", "N", "O",
       "P", "Q", "R", "S", "T", "U", "V", "W", "X", "Y", "Z", "[",
       "\\", "]", "^", "_", "U+0060", "a", "b", "c", "d", "e", "f", "g",
       "h", "i", "j", "k", "l", "m", "n", "o", "p", "q", "r", "s",
       "t", "u", "v", "w", "x", "y", "z", "{", "|", "}", "~"
    >>

\* the code point of a character
CodePoint(c) ==
    IF c = "U+00E9" THEN 233
    ELSE IF c = "U+20AC" THEN 8364
    ELSE 31 + (CHOOSE i \in 1..Len(AsciiChars) : AsciiChars[i] = c)

\* the UTF-8 bytes of one code point of the basic multilingual plane
Utf8Char(cp) ==
    IF cp < 128 THEN <<cp>>
    ELSE IF cp < 2048 THEN <<192 + (cp \div 64), 128 + (cp % 64)>>
    ELSE <<224 + (cp \div 4096), 128 + ((cp \div 64) % 64), 128 + (cp % 64)>>

RECURSIVE Utf8(_)
\* the UTF-8 bytes of a character sequence
Utf8(chars) ==
    IF chars = <<>> THEN <<>>
    ELSE Utf8Char(CodePoint(chars[1])) \o Utf8(Tail(chars))

RECURSIVE Rle(_)
\* the runs of a byte sequence
Rle(bytes) ==
    IF bytes = <<>> THEN <<>>
    ELSE AppendRuns(<< <<bytes[1], 1>> >>, Rle(Tail(bytes)))

\* Buffer.from(string, "utf8")
BufferFrom(chars) == Buf(Rle(Utf8(chars)))

\* one character of String.prototype.toLowerCase (ASCII letters)
LowerChar(c) ==
    LET cp == CodePoint(c)
    IN  IF cp >= 65 /\ cp <= 90 THEN AsciiChars[cp + 32 - 31] ELSE c

\* filename.toLowerCase()
ToLowerCase(chars) == [i \in 1..Len(chars) |-> LowerChar(chars[i])]

RECURSIVE LastSegment(_)
\* chars.split(".").pop(): what follows the last dot, all of it without a dot
LastSegment(chars) ==
    IF \A i \in 1..Len(chars) : chars[i] # "." THEN chars
    ELSE LastSegment(Tail(chars))

RECURSIVE Digits(_)
\* the decimal digits of a natural number
Digits(n) ==
    IF n < 10 THEN <<AsciiChars[n + 48 - 31]>>
    ELSE Digits(n \div 10) \o <<AsciiChars[(n % 10) + 48 - 31]>>

\* String(n) of an integer
NumberToString(n) == IF n < 0 THEN <<"-">> \o Digits(0 - n) ELSE Digits(n)

RECURSIVE JsonQuote(_)
\* the characters of a string inside a JSON string literal
JsonQuote(chars) ==
    IF chars = <<>> THEN <<>>
    ELSE (IF chars[1] \in {"\"", "\\"} THEN <<"\\", chars[1]>> ELSE <<chars[1]>>)
            \o JsonQuote(Tail(chars))

\* JSON.stringify throws on v: v reaches itself
RECURSIVE JsonThrows(_)
JsonThrows(v) ==
    CASE v.t = "object" ->
            \/ v.cyclic
            \/ \E i \in 1..Len(v.props) : JsonThrows(v.props[i][2])
      [] v.t = "array" -> \E i \in 1..Len(v.elems) : JsonThrows(v.elems[i])
      [] OTHER -> FALSE

RECURSIVE JsonText(_)
RECURSIVE JsonMembers(_, _)
RECURSIVE JsonElements(_, _)
\* the members of an object, those with an undefined value left out
JsonMembers(props, first) ==
    IF props = <<>> THEN <<>>
    ELSE IF props[1][2] = Undefined THEN JsonMembers(Tail(props), first)
    ELSE (IF first THEN <<>> ELSE <<",">>)
            \o <<"\"">> \o JsonQuote(props[1][1]) \o <<"\"", ":">>
            \o JsonText(props[1][2])
            \o JsonMembers(Tail(props), FALSE)

\* the elements of an array, undefined written as null
JsonElements(elems, first) ==
    IF elems = <<>> THEN <<>>
    ELSE (IF first THEN <<>> ELSE <<",">>)
            \o (IF elems[1] = Undefined THEN <<"n", "u", "l", "l">>
                ELSE JsonText(elems[1]))
            \o JsonElements(Tail(elems), FALSE)

\* JSON.stringify(v), for a v it does not throw on
JsonText(v) ==
    CASE v.t = "string" -> <<"\"">> \o JsonQuote(v.s) \o <<"\"">>
      [] v.t = "number" -> NumberToString(v.n)
      [] v.t = "boolean" ->
            IF v.v THEN <<"t", "r", "u", "e">> ELSE <<"f", "a", "l", "s", "e">>
      [] v.t = "null" -> <<"n", "u", "l", "l">>
      [] v.t = "array" -> <<"[">> \o JsonElements(v.elems, TRUE) \o <<"]">>
      [] v.t = "object" -> <<"{">> \o JsonMembers(v.props, TRUE) \o <<"}">>

-----------------------------------------------------------------------------
(* detectContentType *)

\* "application/octet-stream"
OctetStream ==
    <<"a", "p", "p", "l", "i", "c", "a", "t", "i", "o", "n", "/">>
        \o <<"o", "c", "t", "e", "t", "-", "s", "t", "r", "e", "a", "m">>

\* const mimeTypes: its own properties, <<extension, type>>
mimeTypes ==
    <<
       <<<<"t", "x", "t">>,
         <<"t", "e", "x", "t", "/", "p", "l", "a", "i", "n">>>>,
       <<<<"h", "t", "m", "l">>,
         <<"t", "e", "x", "t", "/", "h", "t", "m", "l">>>>,
       <<<<"h", "t", "m">>,
         <<"t", "e", "x", "t", "/", "h", "t", "m", "l">>>>,
       <<<<"c", "s", "s">>,
         <<"t", "e", "x", "t", "/", "c", "s", "s">>>>,
       <<<<"c", "s", "v">>,
         <<"t", "e", "x", "t", "/", "c", "s", "v">>>>,
       <<<<"x", "m", "l">>,
         <<"t", "e", "x", "t", "/", "x", "m", "l">>>>,
       <<<<"j", "s", "o", "n">>,
         <<"a", "p", "p", "l", "i", "c", "a", "t", "i", "o", "n", "/", "j", "s", "o", "n">>>>,
       <<<<"j", "s">>,
         <<"a", "p", "p", "l", "i", "c", "a", "t", "i", "o", "n", "/", "j", "a", "v", "a", "s", "c", "r", "i", "p", "t">>>>,
       <<<<"p", "d", "f">>,
         <<"a", "p", "p", "l", "i", "c", "a", "t", "i", "o", "n", "/", "p", "d", "f">>>>,
       <<<<"z", "i", "p">>,
         <<"a", "p", "p", "l", "i", "c", "a", "t", "i", "o", "n", "/", "z", "i", "p">>>>,
       <<<<"g", "z">>,
         <<"a", "p", "p", "l", "i", "c", "a", "t", "i", "o", "n", "/", "g", "z", "i", "p">>>>,
       <<<<"t", "a", "r">>,
         <<"a", "p", "p", "l", "i", "c", "a", "t", "i", "o", "n", "/", "x", "-", "t", "a", "r">>>>,
       <<<<"j", "p", "g">>,
         <<"i", "m", "a", "g", "e", "/", "j", "p", "e", "g">>>>,
       <<<<"j", "p", "e", "g">>,
         <<"i", "m", "a", "g", "e", "/", "j", "p", "e", "g">>>>,
       <<<<"p", "n", "g">>,
         <<"i", "m", "a", "g", "e", "/", "p", "n", "g">>>>,
       <<<<"g", "i", "f">>,
         <<"i", "m", "a", "g", "e", "/", "g", "i", "f">>>>,
       <<<<"s", "v", "g">>,
         <<"i", "m", "a", "g", "e", "/", "s", "v", "g", "+", "x", "m", "l">>>>,
       <<<<"w", "e", "b", "p">>,
         <<"i", "m", "a", "g", "e", "/", "w", "e", "b", "p">>>>,
       <<<<"i", "c", "o">>,
         <<"i", "m", "a", "g", "e", "/", "x", "-", "i", "c", "o", "n">>>>,
       <<<<"m", "p", "3">>,
         <<"a", "u", "d", "i", "o", "/", "m", "p", "e", "g">>>>,
       <<<<"w", "a", "v">>,
         <<"a", "u", "d", "i", "o", "/", "w", "a", "v">>>>,
       <<<<"o", "g", "g">>,
         <<"a", "u", "d", "i", "o", "/", "o", "g", "g">>>>,
       <<<<"m", "p", "4">>,
         <<"v", "i", "d", "e", "o", "/", "m", "p", "4">>>>,
       <<<<"w", "e", "b", "m">>,
         <<"v", "i", "d", "e", "o", "/", "w", "e", "b", "m">>>>,
       <<<<"a", "v", "i">>,
         <<"v", "i", "d", "e", "o", "/", "x", "-", "m", "s", "v", "i", "d", "e", "o">>>>
    >>

\* mimeTypes[ext]: an own property, else what Object.prototype gives the key
MimeLookup(ext) ==
    IF \E i \in 1..Len(mimeTypes) : mimeTypes[i][1] = ext
    THEN Str(mimeTypes[CHOOSE i \in 1..Len(mimeTypes) : mimeTypes[i][1] = ext][2])
    ELSE IF ext = <<"c", "o", "n", "s", "t", "r", "u", "c", "t", "o", "r">>
    THEN [t |-> "function", name |-> "Object"]
    ELSE IF ext = <<"_", "_", "p", "r", "o", "t", "o", "_", "_">>
    THEN [t |-> "prototype", name |-> "Object.prototype"]
    ELSE Undefined

\* detectContentType(filename), filename a string or undefined
detectContentType(filename) ==
    IF ~Truthy(filename) THEN Str(OctetStream)
    ELSE Or(MimeLookup(LastSegment(ToLowerCase(filename.s))), Str(OctetStream))

-----------------------------------------------------------------------------
(* EpiAmazonS3UploadNode: the input handler *)

\* a byte count as whole GiB plus bytes, adding n <= GiB bytes
BigAdd(a, n) ==
    [gib |-> a.gib + ((a.rem + n) \div GiB), rem |-> (a.rem + n) % GiB]

RECURSIVE BigLength(_)
\* buf.length of a Buffer of any size, from its runs (each at most 1 GiB)
BigLength(runs) ==
    IF runs = <<>> THEN [gib |-> 0, rem |-> 0]
    ELSE BigAdd(BigLength(Tail(runs)), runs[1][2])

\* a > b
BigGreater(a, b) == a.gib > b.gib \/ (a.gib = b.gib /\ a.rem > b.rem)

\* the payload branch that calls JSON.stringify
IsStringified(payload) == TypeOf(payload) = "object" /\ ~IsBuffer(payload)

\* NormalizeBody with String(body) in place of JSON.stringify(body)
NormalizeBodyToString(payload) ==
    IF TypeOf(payload) = "string" THEN BufferFrom(payload.s)
    ELSE IF IsStringified(payload)
    THEN BufferFrom(<<"[", "o", "b", "j", "e", "c", "t", " ",
                      "O", "b", "j", "e", "c", "t", "]">>)
    ELSE payload

\* let body = msg.payload, converted when a string or a non-Buffer object
NormalizeBody(payload) ==
    IF TypeOf(payload) = "string" THEN BufferFrom(payload.s)
    ELSE IF IsStringified(payload) THEN BufferFrom(JsonText(payload))
    ELSE payload

\* ExceedsUploadLimit with >= in place of >
ExceedsUploadLimitAtLimit(body) ==
    IsBuffer(body) /\ ~BigGreater(MAX_UPLOAD_SIZE, BigLength(body.runs))

\* Buffer.isBuffer(body) && body.length > MAX_UPLOAD_SIZE
ExceedsUploadLimit(body) ==
    IsBuffer(body) /\ BigGreater(BigLength(body.runs), MAX_UPLOAD_SIZE)

\* the switch of the upload catch block: the text put into the log
UploadErrorMessage(err, bucket) ==
    CASE HttpStatusCode(err) = 403 -> I18n("aws.error.access-denied", NoArg)
      [] HttpStatusCode(err) = 400 -> I18n("aws.error.invalid-request", NoArg)
      [] HttpStatusCode(err) = 404 ->
            I18n("aws.error.bucket-not-found", [bucket |-> bucket])
      [] OTHER -> ErrText(err)

\* the catch block of the upload handler
UploadCatch(f, err) ==
    LET m == Put(Put(f.msg, "error", err), "payload", Null)
        text == I18n("aws.error.upload-failed",
                     [err |-> UploadErrorMessage(err, f.bucket)])
        f1 == [f EXCEPT !.msg = m, !.caught = err]
    IN  [Send(SetStatus(Report(f1, text), StatusError))
            EXCEPT !.pc = "done", !.outcome = "failed"]

\* CommandParams with the ACL assigned without the test of acl
CommandParamsAlwaysAcl(bucket, filename, body, contentType, acl) ==
    LET base == [Bucket |-> bucket, Key |-> filename, Body |-> body]
        withType == IF Truthy(contentType)
                    THEN Put(base, "ContentType", contentType) ELSE base
    IN  Put(withType, "ACL", acl)

\* commandParams: Bucket, Key, Body, and ContentType and ACL when truthy
CommandParams(bucket, filename, body, contentType, acl) ==
    LET base == [Bucket |-> bucket, Key |-> filename, Body |-> body]
        withType == IF Truthy(contentType)
                    THEN Put(base, "ContentType", contentType) ELSE base
    IN  IF Truthy(acl) THEN Put(withType, "ACL", acl) ELSE withType

\* new PutObjectCommand(commandParams)
PutObjectCommand(params) == [type |-> "PutObject", input |-> params]

\* s3Client.send(command) inside the try block of the upload handler
UploadSend(f, command) ==
    IF s3Client = "null"
    THEN UploadCatch(f, NullClientError)
    ELSE [f EXCEPT !.pc = "sending", !.commands = Append(@, command)]

\* const contentType = node.contentType || msg.contentType || detect...
ResolveContentType(configured, requested, filename) ==
    Or(Or(configured, requested), detectContentType(filename))

\* the TypeError of JSON.stringify on a cyclic structure
CircularError ==
    Err(2, "TypeError", Raw("Converting circular structure to JSON"), Undefined)

\* UploadInvalid with the payload check moved to the front
UploadInvalidPayloadFirst(bucket, filename, payload) ==
    IF payload = Undefined \/ payload = Null
    THEN "aws.error.no-payload-specified"
    ELSE IF ~Truthy(bucket) THEN "aws.error.no-bucket-specified"
    ELSE IF ~Truthy(filename) THEN "aws.error.no-filename-specified"
    ELSE ""

\* UploadInvalid with the payload tested for truthiness
UploadInvalidFalsyPayload(bucket, filename, payload) ==
    IF ~Truthy(bucket) THEN "aws.error.no-bucket-specified"
    ELSE IF ~Truthy(filename) THEN "aws.error.no-filename-specified"
    ELSE IF ~Truthy(payload) THEN "aws.error.no-payload-specified"
    ELSE ""

\* the validation of the upload handler: the error of the first check that
\* fails, "" when all pass
UploadInvalid(bucket, filename, payload) ==
    IF ~Truthy(bucket) THEN "aws.error.no-bucket-specified"
    ELSE IF ~Truthy(filename) THEN "aws.error.no-filename-specified"
    ELSE IF payload = Undefined \/ payload = Null
    THEN "aws.error.no-payload-specified"
    ELSE ""

\* the upload handler from its entry to its first await
UploadStart(m) ==
    LET bucket == Resolve(node.bucket, Get(m, "bucket"))
        filename == Resolve(node.filename, Get(m, "filename"))
        contentType == ResolveContentType(node.contentType,
                                          Get(m, "contentType"), filename)
        acl == Or(node.acl, Get(m, "acl"))
        payload == Get(m, "payload")
        f0 == [IdleReq EXCEPT !.orig = m, !.msg = m,
                              !.bucket = bucket, !.filename = filename,
                              !.contentType = contentType, !.acl = acl]
    IN  IF UploadInvalid(bucket, filename, payload) # ""
        THEN Reject(f0, UploadInvalid(bucket, filename, payload), NoArg)
        ELSE IF IsStringified(payload) /\ JsonThrows(payload)
        THEN [f0 EXCEPT !.pc = "done", !.outcome = "threw",
                        !.uncaught = CircularError]
        ELSE LET body == NormalizeBody(payload)
                 m1 == Put(Put(m, "bucket", bucket), "filename", filename)
                 f1 == [f0 EXCEPT !.body = body]
                 f2 == SetStatus([f1 EXCEPT !.msg = m1], StatusUploading)
             IN  IF ExceedsUploadLimit(body)
                 THEN Reject(f1, "aws.error.upload-size-limit-exceeded",
                             [size |-> MAX_UPLOAD_SIZE.gib])
                 ELSE UploadSend(f2, PutObjectCommand(
                        CommandParams(bucket, filename, body, contentType, acl)))

\* Receipt with the bucket written as the key
ReceiptKeyIsBucket(bucket, filename, response) ==
    [t |-> "object",
     fields |-> [success |-> Bool(TRUE), bucket |-> bucket, key |-> bucket,
                 etag |-> Get(response, "ETag"),
                 versionId |-> Get(response, "VersionId")]]

\* msg.payload of a successful upload: the receipt, versionId always a key
Receipt(bucket, filename, response) ==
    [t |-> "object",
     fields |-> [success |-> Bool(TRUE), bucket |-> bucket, key |-> filename,
                 etag |-> Get(response, "ETag"),
                 versionId |-> Get(response, "VersionId")]]

\* the rest of the try block once s3Client.send has resolved
UploadComplete(f, response) ==
    LET m == Put(f.msg, "payload", Receipt(f.bucket, f.filename, response))
    IN  [Send(SetStatus([f EXCEPT !.msg = m, !.response = response],
                        StatusCleared))
            EXCEPT !.pc = "done", !.outcome = "success"]

-----------------------------------------------------------------------------
(* The inputs the model draws from *)

\* marks a field a message or configuration is built without
Absent == [t |-> "absent"]
OptField(f, v) == IF v = Absent THEN EmptyMsg ELSE Field(f, v)

\* this.credentials of the config node
CredentialInputs ==
    {Undefined,
     [accesskeyid |-> Str(<<"A", "K", "I", "A", "1">>), secretaccesskey |-> Str(<<"s", "3", "c", "r", "3", "t">>)],
     [accesskeyid |-> Str(<<"A", "K", "I", "A", "1">>), secretaccesskey |-> Undefined],
     [accesskeyid |-> Undefined, secretaccesskey |-> Str(<<"s", "3", "c", "r", "3", "t">>)],
     [accesskeyid |-> Str(<<"A", "K", "I", "A", "1">>), secretaccesskey |-> Str(<<>>)]}

\* RED.nodes.getNode(n.aws): no such node, or the config node
AwsConfigs == {Undefined} \cup {EpiAWSNode(c) : c \in CredentialInputs}

\* the deployed configuration n of a transfer node
DeployedConfigs(type) ==
    IF type = "download"
    THEN {[bucket |-> b, filename |-> f] :
            b \in {Undefined, Str(<<"n", "b">>)},
            f \in {Undefined, Str(<<"n", ".", "t", "x", "t">>)}}
    ELSE {[bucket |-> b, filename |-> f, contentType |-> c, acl |-> a] :
            b \in {Undefined, Str(<<"n", "b">>)},
            f \in {Undefined, Str(<<"n", ".", "t", "x", "t">>)},
            c \in {Str(<<>>), Str(<<"t", "e", "x", "t", "/", "c", "s", "s">>)},
            a \in {Undefined, Str(<<"p", "r", "i", "v", "a", "t", "e">>)}}

\* an error object a message may carry from an earlier node of the flow
PriorError == Err(9, "Error", Raw("upstream failure"), Undefined)

MsgBuckets == {Absent, Str(<<>>), Str(<<"m", "b">>)}
MsgFilenames == {Absent, Str(<<>>), Str(<<"m", ".", "J", "S", "O", "N">>)}

\* fields of a message the download handler does not read
DownloadExtras ==
    {EmptyMsg,
     [topic |-> Str(<<"t", "1">>), error |-> PriorError,
      payload |-> Str(<<"o", "l", "d">>)]}

\* the messages delivered to a download node
DownloadMsgs ==
    {Merge(Merge(OptField("bucket", b), OptField("filename", f)), x) :
        b \in MsgBuckets, f \in MsgFilenames, x \in DownloadExtras}

\* { key: "value", count: 42 }
SampleObject ==
    Obj(<< <<<<"k", "e", "y">>, Str(<<"v", "a", "l", "u", "e">>)>>,
           <<<<"c", "o", "u", "n", "t">>, Num(42)>> >>)

\* Buffers of exactly and of one byte more than 5 GiB
FiveGiB == Buf(<< <<0, GiB>>, <<1, GiB>>, <<0, GiB>>, <<1, GiB>>, <<0, GiB>> >>)
OverFiveGiB == Buf(FiveGiB.runs \o << <<1, 1>> >>)

\* msg.payload of the messages delivered to an upload node
UploadPayloads ==
    {Absent, Null,
     Buf(<<>>), Buf(<< <<104, 1>>, <<105, 1>> >>), FiveGiB, OverFiveGiB,
     Str(<<>>), Str(<<"H", "i", " ", "U+00E9", "\"", "U+20AC">>),
     SampleObject, Arr(<<Num(1), Str(<<"a">>), Undefined>>), CyclicObj,
     Num(42), Bool(FALSE)}

\* fields of a message beside bucket, filename and payload
UploadExtras ==
    {EmptyMsg,
     [topic |-> Str(<<"t", "1">>), error |-> PriorError],
     [contentType |-> Str(<<"i", "m", "a", "g", "e", "/", "p", "n", "g">>), acl |-> Str(<<"p", "u", "b", "l", "i", "c", "-", "r", "e", "a", "d">>)]}

\* the messages delivered to an upload node
UploadMsgs ==
    {Merge(Merge(Merge(OptField("bucket", b), OptField("filename", f)),
                 OptField("payload", p)), x) :
        b \in MsgBuckets, f \in MsgFilenames, p \in UploadPayloads,
        x \in UploadExtras}

\* what s3Client.send or the body stream may fail with
ServiceErrors ==
    {Err(3, "NoSuchKey", Raw("The specified key does not exist."),
         [httpStatusCode |-> 404]),
     Err(4, "AccessDenied", Raw("Access Denied"), [httpStatusCode |-> 403]),
     Err(5, "BadRequest", Raw("Bad Request"), [httpStatusCode |-> 400]),
     Err(6, "InternalError", Raw("We encountered an internal error."),
         [httpStatusCode |-> 500]),
     Err(7, "Error", Raw("Network timeout"), Undefined),
     Err(8, "Error", Raw(""), Undefined)}

\* what the body stream may fail with once the call has resolved
StreamErrors == {e \in ServiceErrors : e.id \in {3, 7}}

\* what a put-object call may resolve with
PutResponses ==
    {[ETag |-> Str(<<"e", "1">>)],
     [ETag |-> Str(<<"e", "2">>), VersionId |-> Str(<<"v", "1">>)]}

\* the stored objects a get-object call may stream, as runs of bytes
StoredObjects ==
    {<<>>,
     << <<97, MiB - 1>>, <<98, 2>> >>,
     << <<97, 50 * MiB>>, <<98, 50 * MiB>> >>,
     << <<97, 100 * MiB>>, <<98, 1>> >>}

\* the sizes of the chunks a body stream may deliver
ChunkSizes == {0, 1, MiB - 1, 50 * MiB, 100 * MiB}

-----------------------------------------------------------------------------
(* The state after the constructor of the node has run *)

Slots == 1..MaxInFlight

\* EpiAmazonS3DownloadNode(n) / EpiAmazonS3UploadNode(n); clientThrows: the
\* S3Client constructor throws
Constructed(type, n, cfg, clientThrows) ==
    /\ nodeType = type
    /\ awsConfig = cfg
    /\ node = NodeConfig(type, n)
    /\ closed = FALSE
    /\ destroyed = 0
    /\ delivered = FALSE
    /\ req = [r \in Slots |-> IdleReq]
    /\ IF MissingCredentials(cfg)
       THEN /\ nodeLog = <<[level |-> "warn",
                            text |-> I18n("aws.warn.missing-credentials", NoArg)]>>
            /\ status = StatusErrorRing
            /\ s3Client = "null"
            /\ constructed = 0
            /\ registered = FALSE
       ELSE IF clientThrows
       THEN /\ nodeLog = <<[level |-> "error",
                            text |-> I18n("aws.error.initialization-failed",
                                          [err |-> Raw("constructor error")])]>>
            /\ status = StatusErrorRing
            /\ s3Client = "null"
            /\ constructed = 0
            /\ registered = FALSE
       ELSE /\ nodeLog = <<>>
            /\ status = StatusCleared
            /\ s3Client = "client"
            /\ constructed = 1
            /\ registered = TRUE

Init ==
    \E type \in {"download", "upload"} :
        \E n \in DeployedConfigs(type), cfg \in AwsConfigs,
           clientThrows \in BOOLEAN :
            Constructed(type, n, cfg, clientThrows)

-----------------------------------------------------------------------------
(* The events: the host delivers an input or a close, the storage call      *)
(* settles, the body stream delivers a chunk, ends or fails                 *)

\* the frame of slot r becomes f, and the status slot what f wrote last
Step(r, f) ==
    /\ req' = [req EXCEPT ![r] = f]
    /\ status' = StatusAfter(req[r], f, status)
    /\ UNCHANGED <<nodeType, awsConfig, node, s3Client, registered,
                   constructed, destroyed, closed, nodeLog, delivered>>

\* Input that keeps the resolved filename as the node's filename
InputRemembersFilename(r, m) ==
    /\ registered
    /\ req[r].pc = "idle"
    /\ LET f == IF nodeType = "download" THEN DownloadStart(m)
                ELSE UploadStart(m)
       IN  /\ req' = [req EXCEPT ![r] = f]
           /\ status' = StatusAfter(IdleReq, f, status)
           /\ node' = IF Truthy(f.filename)
                      THEN [node EXCEPT !.filename = f.filename] ELSE node
    /\ delivered' = TRUE
    /\ UNCHANGED <<nodeType, awsConfig, s3Client, registered,
                   constructed, destroyed, closed, nodeLog>>

\* node.on("input"): the handler runs up to its first await
Input(r, m) ==
    /\ registered
    /\ req[r].pc = "idle"
    /\ LET f == IF nodeType = "download" THEN DownloadStart(m)
                ELSE UploadStart(m)
       IN  /\ req' = [req EXCEPT ![r] = f]
           /\ status' = StatusAfter(IdleReq, f, status)
    /\ delivered' = TRUE
    /\ UNCHANGED <<nodeType, awsConfig, node, s3Client, registered,
                   constructed, destroyed, closed, nodeLog>>

\* an input event on a node whose constructor returned before node.on:
\* no handler listens
InputUnhandled ==
    /\ ~registered
    /\ delivered' = TRUE
    /\ UNCHANGED <<nodeType, awsConfig, node, s3Client, registered,
                   constructed, destroyed, closed, nodeLog, status, req>>

\* await s3Client.send(command) resolves for a get-object command
GetObjectResolves(r, object) ==
    /\ nodeType = "download"
    /\ req[r].pc = "sending"
    /\ Step(r, [req[r] EXCEPT !.pc = "streaming", !.object = object,
                              !.rest = object])

\* await s3Client.send(command) resolves for a put-object command
PutObjectResolves(r, response) ==
    /\ nodeType = "upload"
    /\ req[r].pc = "sending"
    /\ Step(r, UploadComplete(req[r], response))

\* await s3Client.send(command) rejects
SendRejects(r, err) ==
    /\ req[r].pc = "sending"
    /\ Step(r, IF nodeType = "download" THEN DownloadCatch(req[r], err)
               ELSE UploadCatch(req[r], err))

\* response.Body yields its next chunk: the next n bytes of the object
ChunkArrives(r, n) ==
    /\ req[r].pc = "streaming"
    /\ req[r].received < MaxChunks
    /\ n <= RunsLen(req[r].rest)
    /\ LET chunk == Buf(TakeRuns(req[r].rest, n))
           f == [req[r] EXCEPT !.rest = DropRuns(@, n),
                               !.received = @ + 1]
       IN  Step(r, DownloadChunk(f, chunk))

\* response.Body is done: the object was delivered whole
StreamEnds(r) ==
    /\ req[r].pc = "streaming"
    /\ req[r].rest = <<>>
    /\ Step(r, DownloadComplete(req[r]))

\* response.Body throws
StreamFails(r, err) ==
    /\ req[r].pc = "streaming"
    /\ Step(r, DownloadCatch(req[r], err))

\* the handler call is over: its frame, and the record of what it did, go
HandlerReturns(r) ==
    /\ req[r].pc = "done"
    /\ req' = [req EXCEPT ![r] = IdleReq]
    /\ UNCHANGED <<nodeType, awsConfig, node, s3Client, registered,
                   constructed, destroyed, closed, nodeLog, status,
                   delivered>>

\* Close with s3Client.destroy() called without the test of s3Client
CloseDestroysAgain ==
    /\ registered
    /\ closed' = TRUE
    /\ s3Client' = "null"
    /\ destroyed' = destroyed + 1
    /\ status' = StatusCleared
    /\ UNCHANGED <<nodeType, awsConfig, node, registered, constructed,
                   nodeLog, delivered, req>>

\* node.on("close")
Close ==
    /\ registered
    /\ closed' = TRUE
    /\ s3Client' = "null"
    /\ destroyed' = IF s3Client # "null" THEN destroyed + 1 ELSE destroyed
    /\ status' = StatusCleared
    /\ UNCHANGED <<nodeType, awsConfig, node, registered, constructed,
                   nodeLog, delivered, req>>

\* the messages the host delivers to the node
Msgs == IF nodeType = "download" THEN DownloadMsgs ELSE UploadMsgs

\* one input handler call at a time, every message
Next ==
    \/ \E m \in Msgs : Input(1, m)
    \/ InputUnhandled
    \/ \E object \in StoredObjects : GetObjectResolves(1, object)
    \/ \E response \in PutResponses : PutObjectResolves(1, response)
    \/ \E err \in ServiceErrors : SendRejects(1, err)
    \/ \E n \in ChunkSizes : ChunkArrives(1, n)
    \/ StreamEnds(1)
    \/ \E err \in StreamErrors : StreamFails(1, err)
    \/ HandlerReturns(1)
    \/ Close

Spec == Init /\ [][Next]_vars

-----------------------------------------------------------------------------
(* Several input handler calls in flight together, on a node with valid     *)
(* credentials and a node-level bucket, for a few messages                  *)

\* the messages delivered while other calls are in flight
ConcMsgs ==
    IF nodeType = "download"
    THEN {[filename |-> Str(<<"m", ".", "J", "S", "O", "N">>)],
          [filename |-> Str(<<"k", ".", "t", "x", "t">>), topic |-> Str(<<"t", "1">>)]}
    ELSE {[filename |-> Str(<<"m", ".", "J", "S", "O", "N">>), payload |-> SampleObject],
          [filename |-> Str(<<"k", ".", "t", "x", "t">>), topic |-> Str(<<"t", "1">>),
           payload |-> Buf(<< <<104, 1>>, <<105, 1>> >>)]}

\* the objects streamed to concurrent calls: 60 MiB, and 1 byte over 100 MiB
ConcObjects ==
    {<< <<97, 60 * MiB>> >>, << <<98, 50 * MiB>>, <<99, 50 * MiB + 1>> >>}

ConcChunkSizes == {50 * MiB, 60 * MiB, 50 * MiB + 1}

\* the failure of a storage call or of a body stream: the 404 response
ConcErrors == {e \in ServiceErrors : HttpStatusCode(e) = 404}

InitConc ==
    \E type \in {"download", "upload"} :
        \E n \in {c \in DeployedConfigs(type) :
                    c.bucket # Undefined /\ c.filename = Undefined},
           cfg \in {c \in AwsConfigs : ~MissingCredentials(c)} :
            Constructed(type, n, cfg, FALSE)

NextConc ==
    \/ \E r \in Slots : \E m \in ConcMsgs : Input(r, m)
    \/ \E r \in Slots : \E object \in ConcObjects : GetObjectResolves(r, object)
    \/ \E r \in Slots : \E response \in PutResponses : PutObjectResolves(r, response)
    \/ \E r \in Slots : \E err \in ConcErrors : SendRejects(r, err)
    \/ \E r \in Slots : \E n \in ConcChunkSizes : ChunkArrives(r, n)
    \/ \E r \in Slots : StreamEnds(r)
    \/ \E r \in Slots : \E err \in ConcErrors : StreamFails(r, err)
    \/ \E r \in Slots : HandlerReturns(r)
    \/ Close

SpecConc == InitConc /\ [][NextConc]_vars

-----------------------------------------------------------------------------
(* The parameters of the put-object request: an upload node with a bucket   *)
(* configured, receiving messages whose filename, contentType and acl vary  *)

\* extensions: every key of the table, keys in other letter cases, and
\* texts that are no key of the table (the empty text: a trailing dot)
ParamExts ==
    {mimeTypes[i][1] : i \in 1..Len(mimeTypes)}
    \cup {<<"T", "X", "T">>, <<"J", "s", "o", "n">>,
          <<"P", "N", "G">>, <<"H", "t", "M">>}
    \cup {<<"b", "i", "n">>, <<"t", "x", "t", "x">>, <<"t", "x">>,
          <<"c", "o", "n", "s", "t", "r", "u", "c", "t", "o", "r">>,
          <<"_", "_", "p", "r", "o", "t", "o", "_", "_">>, <<>>}

\* msg.filename: a stem with each extension, names without a dot, a name
\* with two dots, a name that starts with its dot, a dot in a directory
ParamFilenames ==
    {<<"a", ".">> \o e : e \in ParamExts}
    \cup {<<"t", "x", "t">>, <<"j", "s", "o", "n">>,
          <<"R", "E", "A", "D", "M", "E">>,
          <<"c", "o", "n", "s", "t", "r", "u", "c", "t", "o", "r">>}
    \cup {<<"a", "r", "c", "h", "i", "v", "e", ".", "t", "a", "r", ".", "g", "z">>,
          <<".", "t", "x", "t">>, <<"a", ".", "b", "/", "c">>}

\* msg.contentType and msg.acl: absent, empty, or a value
ParamContentTypes == {Absent, Str(<<>>), Str(<<"i", "m", "a", "g", "e", "/", "p", "n", "g">>)}
ParamAcls == {Absent, Str(<<>>), Str(<<"p", "u", "b", "l", "i", "c", "-", "r", "e", "a", "d">>)}

\* the messages delivered to the upload node
ParamMsgs ==
    {Merge(Merge([filename |-> Str(fn),
                  payload |-> Buf(<< <<104, 1>>, <<105, 1>> >>)],
                 OptField("contentType", c)), OptField("acl", a)) :
        fn \in ParamFilenames, c \in ParamContentTypes, a \in ParamAcls}

InitParams ==
    \E n \in {c \in DeployedConfigs("upload") : c.bucket # Undefined},
       cfg \in {c \in AwsConfigs : ~MissingCredentials(c)} :
        Constructed("upload", n, cfg, FALSE)

NextParams ==
    \/ \E m \in ParamMsgs : Input(1, m)
    \/ \E response \in PutResponses : PutObjectResolves(1, response)
    \/ \E err \in ConcErrors : SendRejects(1, err)
    \/ HandlerReturns(1)

SpecParams == InitParams /\ [][NextParams]_vars

-----------------------------------------------------------------------------
(* A body stream that does not end: a download node whose get-object calls  *)
(* resolve with a stream that has more to deliver than the handler reads   *)

\* the bytes of a stream that is still delivering when the handler has read
\* the 100 MiB it accepts and one chunk more
LongObject == << <<97, 120 * MiB>>, <<98, 120 * MiB>> >>

\* chunk.length of the chunks of that stream
LongChunkSizes == {0, 40 * MiB, 60 * MiB, 100 * MiB + 1}

\* response.Body yields its next chunk of n bytes; zero-length chunks, which
\* leave the total where it is, are delivered MaxChunks times at most
StreamDelivers(r, n) ==
    /\ req[r].pc = "streaming"
    /\ n <= RunsLen(req[r].rest)
    /\ n = 0 => req[r].received < MaxChunks
    /\ LET chunk == Buf(TakeRuns(req[r].rest, n))
           f == [req[r] EXCEPT !.rest = DropRuns(@, n),
                               !.received = @ + 1]
       IN  Step(r, DownloadChunk(f, chunk))

\* the stream delivers a chunk that is not empty
NonEmptyChunk == \E n \in LongChunkSizes \ {0} : StreamDelivers(1, n)

InitStream ==
    \E n \in DeployedConfigs("download"),
       cfg \in {c \in AwsConfigs : ~MissingCredentials(c)} :
        Constructed("download", n, cfg, FALSE)

NextStream ==
    \/ \E m \in DownloadMsgs : Input(1, m)
    \/ GetObjectResolves(1, LongObject)
    \/ StreamDelivers(1, 0)
    \/ NonEmptyChunk
    \/ HandlerReturns(1)

\* the stream keeps delivering chunks that are not empty
SpecStream == InitStream /\ [][NextStream]_vars /\ WF_vars(NonEmptyChunk)

-----------------------------------------------------------------------------
(* A node that is not closed, whose storage calls settle and whose body     *)
(* streams end or fail                                                      *)

\* await s3Client.send(command) settles: it resolves or it rejects
SendSettles ==
    \/ \E object \in StoredObjects : GetObjectResolves(1, object)
    \/ \E response \in PutResponses : PutObjectResolves(1, response)
    \/ \E err \in ServiceErrors : SendRejects(1, err)

\* the for await loop gets the next event of response.Body: a chunk, the
\* end of the stream, or its failure
StreamSettles ==
    \/ \E n \in ChunkSizes : ChunkArrives(1, n)
    \/ StreamEnds(1)
    \/ \E err \in StreamErrors : StreamFails(1, err)

InitLive ==
    \E type \in {"download", "upload"} :
        \E n \in DeployedConfigs(type),
           cfg \in {c \in AwsConfigs : ~MissingCredentials(c)} :
            Constructed(type, n, cfg, FALSE)

NextLive ==
    \/ \E m \in Msgs : Input(1, m)
    \/ SendSettles
    \/ StreamSettles
    \/ HandlerReturns(1)

\* the promise of a storage call settles, and a body stream that is read
\* delivers its next event
SpecLive ==
    InitLive /\ [][NextLive]_vars /\ WF_vars(SendSettles) /\ WF_vars(StreamSettles)

-----------------------------------------------------------------------------
(* The vocabulary of the specification, for the properties below *)

\* a configured or requested value that is set: a non-empty text
IsSet(v) == v.t = "string" /\ Len(v.s) > 0

\* empty or absent
Missing(v) == v = Undefined \/ v = Null \/ v = Str(<<>>)

\* populated: present and not null
Populated(v) == v # Undefined /\ v # Null

\* the bucket and the filename the specification resolves for a call
ExpectedBucket(f) ==
    IF IsSet(node.bucket) THEN node.bucket ELSE Get(f.orig, "bucket")
ExpectedFilename(f) ==
    IF IsSet(node.filename) THEN node.filename ELSE Get(f.orig, "filename")

\* the request message has no payload: absent or null
PayloadMissing(f) ==
    "payload" \notin DOMAIN f.orig \/ f.orig["payload"] = Null

\* the payload is a byte sequence longer than 5 GiB
PayloadOversized(f) ==
    /\ ~PayloadMissing(f)
    /\ f.orig["payload"].t = "buffer"
    /\ BigGreater(BigLength(f.orig["payload"].runs), [gib |-> 5, rem |-> 0])

\* the call fails the pre-request validation of its node
FailsValidation(f) ==
    \/ Missing(ExpectedBucket(f))
    \/ Missing(ExpectedFilename(f))
    \/ nodeType = "upload" /\ PayloadMissing(f)

\* the validation error of the first missing item, in the order bucket,
\* filename, payload
FirstMissing(f) ==
    IF Missing(ExpectedBucket(f)) THEN "aws.error.no-bucket-specified"
    ELSE IF Missing(ExpectedFilename(f)) THEN "aws.error.no-filename-specified"
    ELSE "aws.error.no-payload-specified"

\* the extension table of the specification: extension, content type
ExtensionTable ==
    {
     <<<<"t", "x", "t">>,
       <<"t", "e", "x", "t", "/", "p", "l", "a", "i", "n">>>>,
     <<<<"h", "t", "m", "l">>,
       <<"t", "e", "x", "t", "/", "h", "t", "m", "l">>>>,
     <<<<"h", "t", "m">>,
       <<"t", "e", "x", "t", "/", "h", "t", "m", "l">>>>,
     <<<<"c", "s", "s">>,
       <<"t", "e", "x", "t", "/", "c", "s", "s">>>>,
     <<<<"c", "s", "v">>,
       <<"t", "e", "x", "t", "/", "c", "s", "v">>>>,
     <<<<"x", "m", "l">>,
       <<"t", "e", "x", "t", "/", "x", "m", "l">>>>,
     <<<<"j", "s", "o", "n">>,
       <<"a", "p", "p", "l", "i", "c", "a", "t", "i", "o", "n", "/", "j", "s", "o", "n">>>>,
     <<<<"j", "s">>,
       <<"a", "p", "p", "l", "i", "c", "a", "t", "i", "o", "n", "/", "j", "a", "v", "a", "s", "c", "r", "i", "p", "t">>>>,
     <<<<"p", "d", "f">>,
       <<"a", "p", "p", "l", "i", "c", "a", "t", "i", "o", "n", "/", "p", "d", "f">>>>,
     <<<<"z", "i", "p">>,
       <<"a", "p", "p", "l", "i", "c", "a", "t", "i", "o", "n", "/", "z", "i", "p">>>>,
     <<<<"g", "z">>,
       <<"a", "p", "p", "l", "i", "c", "a", "t", "i", "o", "n", "/", "g", "z", "i", "p">>>>,
     <<<<"t", "a", "r">>,
       <<"a", "p", "p", "l", "i", "c", "a", "t", "i", "o", "n", "/", "x", "-", "t", "a", "r">>>>,
     <<<<"j", "p", "g">>,
       <<"i", "m", "a", "g", "e", "/", "j", "p", "e", "g">>>>,
     <<<<"j", "p", "e", "g">>,
       <<"i", "m", "a", "g", "e", "/", "j", "p", "e", "g">>>>,
     <<<<"p", "n", "g">>,
       <<"i", "m", "a", "g", "e", "/", "p", "n", "g">>>>,
     <<<<"g", "i", "f">>,
       <<"i", "m", "a", "g", "e", "/", "g", "i", "f">>>>,
     <<<<"s", "v", "g">>,
       <<"i", "m", "a", "g", "e", "/", "s", "v", "g", "+", "x", "m", "l">>>>,
     <<<<"w", "e", "b", "p">>,
       <<"i", "m", "a", "g", "e", "/", "w", "e", "b", "p">>>>,
     <<<<"i", "c", "o">>,
       <<"i", "m", "a", "g", "e", "/", "x", "-", "i", "c", "o", "n">>>>,
     <<<<"m", "p", "3">>,
       <<"a", "u", "d", "i", "o", "/", "m", "p", "e", "g">>>>,
     <<<<"w", "a", "v">>,
       <<"a", "u", "d", "i", "o", "/", "w", "a", "v">>>>,
     <<<<"o", "g", "g">>,
       <<"a", "u", "d", "i", "o", "/", "o", "g", "g">>>>,
     <<<<"m", "p", "4">>,
       <<"v", "i", "d", "e", "o", "/", "m", "p", "4">>>>,
     <<<<"w", "e", "b", "m">>,
       <<"v", "i", "d", "e", "o", "/", "w", "e", "b", "m">>>>,
     <<<<"a", "v", "i">>,
       <<"v", "i", "d", "e", "o", "/", "x", "-", "m", "s", "v", "i", "d", "e", "o">>>>
    }

\* the name contains a dot
HasDot(chars) == \E i \in 1..Len(chars) : chars[i] = "."

\* the extension of a name with a dot: the text after its last dot
ExtensionOf(chars) ==
    LET last == CHOOSE i \in 1..Len(chars) :
                    /\ chars[i] = "."
                    /\ \A j \in (i + 1)..Len(chars) : chars[j] # "."
    IN  SubSeq(chars, last + 1, Len(chars))

\* the extension is listed in the table, letter case aside
Listed(ext) == \E row \in ExtensionTable : row[1] = ToLowerCase(ext)

\* the content type the table lists for the extension
ListedType(ext) ==
    (CHOOSE row \in ExtensionTable : row[1] = ToLowerCase(ext))[2]

\* the content type the specification infers from a filename
InferredType(filename) ==
    IF HasDot(filename.s) /\ Listed(ExtensionOf(filename.s))
    THEN Str(ListedType(ExtensionOf(filename.s)))
    ELSE Str(<<"a", "p", "p", "l", "i", "c", "a", "t", "i", "o", "n", "/",
               "o", "c", "t", "e", "t", "-", "s", "t", "r", "e", "a", "m">>)

\* a put-object request was issued whose content type was left to the
\* filename: none configured on the node, none supplied by the message
TypeIsInferred(f) ==
    /\ nodeType = "upload"
    /\ f.commands # <<>>
    /\ ~IsSet(node.contentType)
    /\ ~IsSet(Get(f.orig, "contentType"))

\* the ContentType parameter of the put-object request of a call
ContentTypeSent(f) == Get(f.commands[1].input, "ContentType")

Done(r) == req[r].pc = "done"

-----------------------------------------------------------------------------
(* Properties *)

\* C1: every input that passes pre-request validation (and, for an upload,
\* the size check) makes the node emit exactly one output message; an input
\* that fails validation makes it emit none.
C1_ExactlyOneOutput ==
    \A r \in Slots :
        Done(r) =>
            Len(req[r].sent) =
                (IF FailsValidation(req[r])
                    \/ (nodeType = "upload" /\ PayloadOversized(req[r]))
                 THEN 0 ELSE 1)

\* C2: no emitted message carries both a populated payload and a populated
\* error field.
C2_PayloadXorError ==
    \A r \in Slots :
        \A i \in 1..Len(req[r].sent) :
            ~(/\ Populated(Get(req[r].sent[i], "payload"))
              /\ Populated(Get(req[r].sent[i], "error")))

C4_ValidationFailureIsSilent ==
    \A r \in Slots :
        (Done(r) /\ FailsValidation(req[r])) =>
            /\ req[r].sent = <<>>
            /\ req[r].errors # <<>>

\* an upload with bucket and filename resolved and a null payload ended
C4_Witness ==
    \E r \in Slots :
        /\ Done(r)
        /\ nodeType = "upload"
        /\ ~Missing(ExpectedBucket(req[r]))
        /\ ~Missing(ExpectedFilename(req[r]))
        /\ Get(req[r].orig, "payload") = Null
        /\ "payload" \in DOMAIN req[r].orig
        /\ Len(req[r].errors) = 1

\* C5: an upload that fails validation reports exactly one validation error,
\* the one of the first missing item in the order bucket, filename, payload.
C5_ValidationOrder ==
    \A r \in Slots :
        (Done(r) /\ nodeType = "upload" /\ FailsValidation(req[r])) =>
            req[r].errors = <<I18n(FirstMissing(req[r]), NoArg)>>

\* an upload with neither bucket, filename nor payload ended
C5_Witness ==
    \E r \in Slots :
        /\ Done(r)
        /\ nodeType = "upload"
        /\ Missing(ExpectedBucket(req[r]))
        /\ Missing(ExpectedFilename(req[r]))
        /\ PayloadMissing(req[r])
        /\ Len(req[r].errors) = 1


\* the bytes the body stream of a call has delivered so far
Delivered(f) == RunsLen(f.object) - RunsLen(f.rest)

\* the service status code an error carries, 0 when it carries none
StatusCodeOf(err) ==
    IF "metadata" \in DOMAIN err /\ err.metadata # Undefined
    THEN err.metadata.httpStatusCode ELSE 0

\* the raw text of an error: its message, its name when the message is empty
RawErrorText(err) == IF err.message = Raw("") THEN Raw(err.name) ELSE err.message

\* the key of a localized text, "" for a raw text
KeyOf(text) == IF "key" \in DOMAIN text THEN text.key ELSE ""

\* C6: a download whose body stream delivers, in any number of chunks, an
\* object of at most 100 MiB (exactly 100 MiB included) is not refused for
\* its size, and when it succeeds the one emitted payload is the object's
\* bytes, whatever the chunk boundaries.
C6_PayloadIsConcatenation ==
    \A r \in Slots :
        (Done(r) /\ nodeType = "download" /\ req[r].commands # <<>>) =>
            /\ req[r].outcome = "success" =>
                /\ Len(req[r].sent) = 1
                /\ req[r].sent[1]["payload"] = Buf(req[r].object)
            /\ RunsLen(req[r].object) <= 100 * MiB =>
                req[r].caught # SizeLimitError
            /\ (req[r].rest = <<>> /\ RunsLen(req[r].object) <= 100 * MiB
                    /\ req[r].caught = Undefined) =>
                req[r].outcome = "success"

\* a download of an object of exactly 100 MiB, delivered in several chunks,
\* succeeded
C6_Witness ==
    \E r \in Slots :
        /\ Done(r)
        /\ req[r].outcome = "success"
        /\ RunsLen(req[r].object) = 100 * MiB
        /\ req[r].received >= 2

\* C7: once the bytes delivered exceed 100 MiB the download has ended at
\* that chunk as a failure: one message emitted, its payload null, its error
\* populated with the size-limit error, no content emitted.
C7_SizeLimitAborts ==
    \A r \in Slots :
        (nodeType = "download" /\ Delivered(req[r]) > 100 * MiB) =>
            /\ Done(r)
            /\ req[r].outcome = "failed"
            /\ req[r].caught = SizeLimitError
            /\ Len(req[r].sent) = 1
            /\ req[r].sent[1]["payload"] = Null
            /\ Populated(Get(req[r].sent[1], "error"))

\* the limit was exceeded by a chunk that was not the first one
C7_Witness ==
    \E r \in Slots :
        /\ nodeType = "download"
        /\ Delivered(req[r]) > 100 * MiB
        /\ Len(req[r].chunks) >= 1
        /\ RunsLen(ConcatRuns(req[r].chunks)) > 0

\* C8: a call that failed in flight emitted its message once, with payload
\* null, error the very error raised, bucket and filename the resolved
\* values, and wrote the error status last.
C8_FailureIsForwarded ==
    \A r \in Slots :
        (Done(r) /\ req[r].outcome = "failed") =>
            /\ req[r].caught # Undefined
            /\ Len(req[r].sent) = 1
            /\ Get(req[r].sent[1], "payload") = Null
            /\ "payload" \in DOMAIN req[r].sent[1]
            /\ Get(req[r].sent[1], "error") = req[r].caught
            /\ Get(req[r].sent[1], "bucket") = ExpectedBucket(req[r])
            /\ Get(req[r].sent[1], "filename") = ExpectedFilename(req[r])
            /\ req[r].statuses[Len(req[r].statuses)] = StatusError

\* a body stream failed after chunks had been accumulated
C8_Witness ==
    \E r \in Slots :
        /\ Done(r)
        /\ req[r].outcome = "failed"
        /\ req[r].caught \in StreamErrors
        /\ Len(req[r].chunks) >= 2

\* C9: the text logged for a failure in flight follows the status code of
\* the error: 404 not found, 403 access denied, 400 invalid request, any
\* other code or none the raw error text.
C9_Classification ==
    \A r \in Slots :
        (Done(r) /\ req[r].outcome = "failed") =>
            /\ Len(req[r].errors) = 1
            /\ KeyOf(req[r].errors[1]) =
                    (IF nodeType = "download" THEN "aws.error.download-failed"
                     ELSE "aws.error.upload-failed")
            /\ LET text == req[r].errors[1].arg.err
                   code == StatusCodeOf(req[r].caught)
               IN  /\ code = 404 =>
                        KeyOf(text) = (IF nodeType = "download"
                                       THEN "aws.error.file-not-found"
                                       ELSE "aws.error.bucket-not-found")
                   /\ code = 403 => text = I18n("aws.error.access-denied", NoArg)
                   /\ code = 400 => text = I18n("aws.error.invalid-request", NoArg)
                   /\ code \notin {400, 403, 404} =>
                        text = RawErrorText(req[r].caught)

\* a failure carrying status code 400 was logged
C9_Witness ==
    \E r \in Slots :
        /\ Done(r)
        /\ req[r].outcome = "failed"
        /\ StatusCodeOf(req[r].caught) = 400
        /\ Len(req[r].errors) = 1

\* the UTF-8 bytes of {"key":"value","count":42}
SampleObjectBytes ==
    Buf(<<
           <<123, 1>>, <<34, 1>>, <<107, 1>>, <<101, 1>>, <<121, 1>>, <<34, 1>>,
           <<58, 1>>, <<34, 1>>, <<118, 1>>, <<97, 1>>, <<108, 1>>, <<117, 1>>,
           <<101, 1>>, <<34, 1>>, <<44, 1>>, <<34, 1>>, <<99, 1>>, <<111, 1>>,
           <<117, 1>>, <<110, 1>>, <<116, 1>>, <<34, 1>>, <<58, 1>>, <<52, 1>>,
           <<50, 1>>, <<125, 1>> >>)

\* the text Hi e-acute " euro and its UTF-8 bytes
SampleText == Str(<<"H", "i", " ", "U+00E9", "\"", "U+20AC">>)
SampleTextBytes ==
    Buf(<<
           <<72, 1>>, <<105, 1>>, <<32, 1>>, <<195, 1>>, <<169, 1>>, <<34, 1>>,
           <<226, 1>>, <<130, 1>>, <<172, 1>> >>)

\* the array [1, "a", undefined] and the UTF-8 bytes of [1,"a",null]
SampleArray == Arr(<<Num(1), Str(<<"a">>), Undefined>>)
SampleArrayBytes ==
    Buf(<<
           <<91, 1>>, <<49, 1>>, <<44, 1>>, <<34, 1>>, <<97, 1>>, <<34, 1>>,
           <<44, 1>>, <<110, 1>>, <<117, 1>>, <<108, 2>>, <<93, 1>> >>)

\* C10: the Body of the put-object request is the payload itself when that
\* is a byte sequence, the UTF-8 bytes of a text payload, and the UTF-8
\* bytes of the JSON text of an object or array payload.
C10_PayloadNormalization ==
    \A r \in Slots :
        (nodeType = "upload" /\ req[r].commands # <<>>) =>
            LET payload == req[r].orig["payload"]
                body == req[r].commands[1].input["Body"]
            IN  /\ payload.t = "buffer" => body = payload
                /\ payload = Str(<<>>) => body = Buf(<<>>)
                /\ payload = SampleText => body = SampleTextBytes
                /\ payload = SampleObject => body = SampleObjectBytes
                /\ payload = SampleArray => body = SampleArrayBytes
                /\ payload.t \in {"string", "object", "array"} =>
                        body.t = "buffer"

\* a put-object request was issued for the payload { key: "value", count: 42 }
C10_Witness ==
    \E r \in Slots :
        /\ nodeType = "upload"
        /\ req[r].commands # <<>>
        /\ req[r].orig["payload"] = SampleObject
        /\ req[r].commands[1].input["Body"] = SampleObjectBytes

\* the UTF-8 bytes of the JSON texts 42 and false
FortyTwoBytes == Buf(<< <<52, 1>>, <<50, 1>> >>)
FalseBytes ==
    Buf(<< <<102, 1>>, <<97, 1>>, <<108, 1>>, <<115, 1>>, <<101, 1>> >>)

\* C11: for every payload that is present, of whatever kind (bytes, text,
\* object, array, number, boolean), the Body of the put-object request is a
\* byte sequence, and for a payload that is neither bytes nor text it is the
\* UTF-8 encoding of the payload's JSON text.
C11_NormalizationIsExhaustive ==
    \A r \in Slots :
        (nodeType = "upload" /\ req[r].commands # <<>>) =>
            LET payload == req[r].orig["payload"]
                body == req[r].commands[1].input["Body"]
            IN  /\ body.t = "buffer"
                /\ payload = SampleObject => body = SampleObjectBytes
                /\ payload = SampleArray => body = SampleArrayBytes
                /\ payload = Num(42) => body = FortyTwoBytes
                /\ payload = Bool(FALSE) => body = FalseBytes

\* C12: an upload whose normalized body is longer than 5 GiB reports the
\* size-limit error, issues no put-object request and emits no message; a
\* body of exactly 5 GiB, or shorter, passes the size check and the request
\* is issued.
C12_UploadSizeLimit ==
    \A r \in Slots :
        (nodeType = "upload" /\ Done(r) /\ ~FailsValidation(req[r])
            /\ req[r].orig["payload"].t = "buffer") =>
            IF PayloadOversized(req[r])
            THEN /\ req[r].outcome = "rejected"
                 /\ Len(req[r].errors) = 1
                 /\ KeyOf(req[r].errors[1]) =
                        "aws.error.upload-size-limit-exceeded"
                 /\ req[r].commands = <<>>
                 /\ req[r].sent = <<>>
            ELSE /\ req[r].outcome # "rejected"
                 /\ \A i \in 1..Len(req[r].errors) :
                        KeyOf(req[r].errors[i]) #
                            "aws.error.upload-size-limit-exceeded"
                 /\ s3Client # "null" =>
                        /\ Len(req[r].commands) = 1
                        /\ req[r].commands[1].input["Body"] =
                                req[r].orig["payload"]

\* a body of exactly 5 GiB was handed to the storage client and stored
C12_AtLimitIsStored ==
    \E r \in Slots :
        /\ nodeType = "upload"
        /\ Done(r)
        /\ Get(req[r].orig, "payload") = FiveGiB
        /\ req[r].outcome = "success"
        /\ req[r].commands # <<>>

\* a body one byte over 5 GiB was refused
C12_Witness ==
    \E r \in Slots :
        /\ nodeType = "upload"
        /\ Done(r)
        /\ Get(req[r].orig, "payload") = OverFiveGiB
        /\ req[r].outcome = "rejected"
        /\ req[r].commands = <<>>

\* C13: the content type of an upload is the node-level content type if
\* that is non-empty (verbatim, whatever the filename's extension); else the
\* request's contentType field if it has one (an empty text counting as
\* none); else the type inferred from the extension of the resolved
\* filename; else application/octet-stream.
C13_ContentTypePriority ==
    \A r \in Slots :
        (nodeType = "upload" /\ req[r].commands # <<>>) =>
            ContentTypeSent(req[r]) =
                IF IsSet(node.contentType) THEN node.contentType
                ELSE IF IsSet(Get(req[r].orig, "contentType"))
                THEN Get(req[r].orig, "contentType")
                ELSE InferredType(ExpectedFilename(req[r]))

\* C14: detectContentType maps the extension of a filename (the text after
\* the last dot, letter case aside) to the type the extension table lists
\* for it, and every extension the table does not list to
\* application/octet-stream.
C14_TableLookup ==
    \A r \in Slots :
        (TypeIsInferred(req[r]) /\ HasDot(ExpectedFilename(req[r]).s)) =>
            /\ ContentTypeSent(req[r]) =
                    InferredType(ExpectedFilename(req[r]))
            /\ ExpectedFilename(req[r]).s = <<"a", ".", "J", "s", "o", "n">> =>
                    ContentTypeSent(req[r]) =
                        Str(<<"a", "p", "p", "l", "i", "c", "a", "t", "i",
                              "o", "n", "/", "j", "s", "o", "n">>)

\* C15: for every filename without a dot the inferred content type is
\* application/octet-stream, also when the whole filename equals a key of
\* the table such as txt or json.
C15_NoExtensionIsOctetStream ==
    \A r \in Slots :
        (TypeIsInferred(req[r]) /\ ~HasDot(ExpectedFilename(req[r]).s)) =>
            ContentTypeSent(req[r]) = Str(OctetStream)

\* C16: the put-object request carries the node-level ACL if that is
\* non-empty, else the acl field of the request if the request has that
\* field, and otherwise it has no ACL parameter at all.
C16_AclIfPresent ==
    \A r \in Slots :
        (nodeType = "upload" /\ req[r].commands # <<>>) =>
            LET input == req[r].commands[1].input
            IN  IF IsSet(node.acl)
                THEN "ACL" \in DOMAIN input /\ input["ACL"] = node.acl
                ELSE IF "acl" \in DOMAIN req[r].orig
                THEN /\ "ACL" \in DOMAIN input
                     /\ input["ACL"] = req[r].orig["acl"]
                ELSE "ACL" \notin DOMAIN input

\* C16, amended: the put-object request carries the node-level ACL if that
\* is non-empty, else the acl field of the request if that is present and
\* non-empty, and otherwise (absent or empty) no ACL parameter at all.
C16_AclResolution ==
    \A r \in Slots :
        (nodeType = "upload" /\ req[r].commands # <<>>) =>
            LET input == req[r].commands[1].input
            IN  IF IsSet(node.acl)
                THEN "ACL" \in DOMAIN input /\ input["ACL"] = node.acl
                ELSE IF IsSet(Get(req[r].orig, "acl"))
                THEN /\ "ACL" \in DOMAIN input
                     /\ input["ACL"] = req[r].orig["acl"]
                ELSE "ACL" \notin DOMAIN input

\* a put-object request without ACL parameter was issued for a message
\* whose acl is the empty text, on a node without ACL, and stored
C16_Witness ==
    \E r \in Slots :
        /\ nodeType = "upload"
        /\ req[r].outcome = "success"
        /\ ~IsSet(node.acl)
        /\ Get(req[r].orig, "acl") = Str(<<>>)
        /\ "ACL" \notin DOMAIN req[r].commands[1].input

\* the same for a message without acl field
C16_NoAclAtAll ==
    \E r \in Slots :
        /\ nodeType = "upload"
        /\ req[r].outcome = "success"
        /\ ~IsSet(node.acl)
        /\ "acl" \notin DOMAIN req[r].orig
        /\ "ACL" \notin DOMAIN req[r].commands[1].input

\* the ACL of the message was sent
C16_RequestAclSent ==
    \E r \in Slots :
        /\ nodeType = "upload"
        /\ req[r].commands # <<>>
        /\ ~IsSet(node.acl)
        /\ Get(req[r].commands[1].input, "ACL") =
                Str(<<"p", "u", "b", "l", "i", "c", "-", "r", "e", "a", "d">>)

\* the ACL of the node was sent in place of the ACL of the message
C16_NodeAclSent ==
    \E r \in Slots :
        /\ nodeType = "upload"
        /\ req[r].commands # <<>>
        /\ IsSet(Get(req[r].orig, "acl"))
        /\ Get(req[r].commands[1].input, "ACL") =
                Str(<<"p", "r", "i", "v", "a", "t", "e">>)

\* the receipt a successful upload emitted
ReceiptOf(f) == f.sent[1]["payload"].fields

\* C17: for every upload that succeeds, the bucket and key of the receipt
\* equal the resolved bucket and filename, which are also the Bucket and Key
\* of the put-object request and the bucket and filename fields of the
\* emitted message; the receipt has success = true and the etag that
\* storage returned.
C17_ReceiptRoundTrip ==
    \A r \in Slots :
        (nodeType = "upload" /\ req[r].outcome = "success") =>
            /\ Len(req[r].sent) = 1 /\ Len(req[r].commands) = 1
            /\ ReceiptOf(req[r]).bucket = ExpectedBucket(req[r])
            /\ ReceiptOf(req[r]).key = ExpectedFilename(req[r])
            /\ req[r].commands[1].input["Bucket"] = ExpectedBucket(req[r])
            /\ req[r].commands[1].input["Key"] = ExpectedFilename(req[r])
            /\ req[r].sent[1]["bucket"] = ExpectedBucket(req[r])
            /\ req[r].sent[1]["filename"] = ExpectedFilename(req[r])
            /\ ReceiptOf(req[r]).success = Bool(TRUE)
            /\ ReceiptOf(req[r]).etag = req[r].response["ETag"]

\* an upload succeeded whose bucket came from the node and whose filename
\* came from the message, and storage returned the etag e2
C17_Witness ==
    \E r \in Slots :
        /\ nodeType = "upload"
        /\ req[r].outcome = "success"
        /\ IsSet(node.bucket) /\ ~IsSet(node.filename)
        /\ "bucket" \in DOMAIN req[r].orig
        /\ ReceiptOf(req[r]).key = req[r].orig["filename"]
        /\ ReceiptOf(req[r]).etag = Str(<<"e", "2">>)

\* C18: the receipt of an upload has a versionId field only when the
\* storage response returned a version id; when storage returned none, the
\* receipt has no versionId field.
C18_VersionIdOnlyWhenReturned ==
    \A r \in Slots :
        (nodeType = "upload" /\ req[r].outcome = "success") =>
            ("versionId" \in DOMAIN ReceiptOf(req[r])
                <=> "VersionId" \in DOMAIN req[r].response)

\* C19: on every emitted message, of a success or of a failure, every field
\* of the input message other than payload, error, bucket and filename
\* (topic, custom fields, and for upload contentType and acl) is present
\* with its value unchanged.
C19_Passthrough ==
    \A r \in Slots :
        \A i \in 1..Len(req[r].sent) :
            \A g \in (DOMAIN req[r].orig)
                        \ {"payload", "error", "bucket", "filename"} :
                /\ g \in DOMAIN req[r].sent[i]
                /\ req[r].sent[i][g] = req[r].orig[g]

\* a failure was emitted for a message that came with a topic
C19_Witness ==
    \E r \in Slots :
        /\ req[r].outcome = "failed"
        /\ Len(req[r].sent) = 1
        /\ "topic" \in DOMAIN req[r].orig
        /\ Get(req[r].sent[1], "topic") = Str(<<"t", "1">>)

\* an upload receipt was emitted for a message that came with contentType
\* and acl
C19_UploadFieldsKept ==
    \E r \in Slots :
        /\ nodeType = "upload"
        /\ req[r].outcome = "success"
        /\ "acl" \in DOMAIN req[r].orig
        /\ Get(req[r].sent[1], "acl") = req[r].orig["acl"]
        /\ Get(req[r].sent[1], "contentType") = req[r].orig["contentType"]

\* the call is in flight: it waits for its storage call or its body stream
InFlight(f) == f.pc \in {"sending", "streaming"}

\* C20: once the node is closed, the completion or failure of the storage
\* call or body stream of a request that was in flight makes the node write
\* no status and emit no message for it.
C20_SilentAfterClose ==
    [][\A r \in Slots :
        (closed /\ InFlight(req[r])) =>
            /\ req'[r].sent = req[r].sent
            /\ req'[r].statuses = req[r].statuses
            /\ status' = status]_vars

\* the credentials holder exists and both its access key id and its secret
\* are configured and non-empty
HasCredentials ==
    /\ awsConfig # Undefined
    /\ awsConfig.credentials # Undefined
    /\ IsSet(awsConfig.credentials.accesskeyid)
    /\ IsSet(awsConfig.credentials.secretaccesskey)

\* C21: over any sequence of input and close events the storage client is
\* constructed at most once, and only when credentials are present; it is
\* destroyed exactly once when the node closes: not before the close, and
\* not again when close is delivered again.
C21_ClientLifecycle ==
    /\ constructed \in {0, 1}
    /\ constructed = 1 => HasCredentials
    /\ destroyed = (IF closed /\ constructed = 1 THEN 1 ELSE 0)
    /\ s3Client = "client" <=> (constructed = 1 /\ ~closed)

\* close was delivered, an input that came after it found no client, and
\* close was delivered again
C21_Witness ==
    /\ closed
    /\ destroyed = 1
    /\ req[1].caught = NullClientError
    /\ req[1].statuses # <<>>
    /\ status = StatusCleared

\* C22: a node whose credentials holder is missing or holds no credentials
\* is disabled for its whole lifetime: it warned once at initialization,
\* has constructed no storage client, and for every input delivered it
\* issues no storage request, reports no error and emits no message.
C22_DisabledWithoutCredentials ==
    ~HasCredentials =>
        /\ nodeLog = <<[level |-> "warn",
                        text |-> I18n("aws.warn.missing-credentials", NoArg)]>>
        /\ constructed = 0
        /\ s3Client = "null"
        /\ \A r \in Slots :
                /\ req[r].commands = <<>>
                /\ req[r].errors = <<>>
                /\ req[r].sent = <<>>
                /\ req[r].statuses = <<>>

\* an input was delivered to a node whose holder has an access key id and
\* an empty secret
C22_Witness ==
    /\ delivered
    /\ awsConfig # Undefined
    /\ awsConfig.credentials # Undefined
    /\ awsConfig.credentials.secretaccesskey = Str(<<>>)
    /\ IsSet(awsConfig.credentials.accesskeyid)

\* C23: the credentials holder yields the pair {accessKeyId,
\* secretAccessKey} of the configured values exactly when both the access
\* key id and the secret are present and non-empty; in every other case
\* (none configured, one of the two, an empty text) it yields null.
C23_CredentialsOrNull ==
    awsConfig # Undefined =>
        awsConfig.awsCredentials =
            IF HasCredentials
            THEN [accessKeyId |-> awsConfig.credentials.accesskeyid,
                  secretAccessKey |-> awsConfig.credentials.secretaccesskey]
            ELSE Null

\* a holder configured with the secret only yields null
C23_Witness ==
    /\ awsConfig # Undefined
    /\ awsConfig.credentials # Undefined
    /\ awsConfig.credentials.accesskeyid = Undefined
    /\ IsSet(awsConfig.credentials.secretaccesskey)
    /\ awsConfig.awsCredentials = Null
    /\ ~registered

\* a holder configured with both yields the pair
C23_PairYielded ==
    /\ awsConfig # Undefined
    /\ awsConfig.awsCredentials =
            [accessKeyId |-> Str(<<"A", "K", "I", "A", "1">>),
             secretAccessKey |-> Str(<<"s", "3", "c", "r", "3", "t">>)]

\* C24: requests in flight together on one node are isolated: whatever the
\* interleaving of the storage responses and chunk arrivals, the chunks a
\* download holds are the bytes its own stream delivered, the message it
\* emits carries its own object, and its 100 MiB budget counts its own bytes
\* only.
C24_RequestsAreIsolated ==
    \A r \in Slots :
        nodeType = "download" =>
            /\ req[r].totalSize = Delivered(req[r])
            /\ (req[r].caught = SizeLimitError) <=>
                    (Delivered(req[r]) > 100 * MiB)
            /\ req[r].caught # SizeLimitError =>
                    ConcatRuns(req[r].chunks) =
                        TakeRuns(req[r].object, Delivered(req[r]))
            /\ req[r].outcome = "success" =>
                    /\ Len(req[r].sent) = 1
                    /\ req[r].sent[1]["payload"] = Buf(req[r].object)

\* two downloads are in flight together and hold 160 MiB between them: one
\* holds the 60 MiB of its object, the other 100 MiB of another object
C24_Witness ==
    \E r1, r2 \in Slots :
        /\ nodeType = "download"
        /\ r1 # r2
        /\ req[r1].pc = "streaming"
        /\ ConcatRuns(req[r1].chunks) = << <<97, 60 * MiB>> >>
        /\ req[r2].pc = "streaming"
        /\ ConcatRuns(req[r2].chunks) = << <<98, 50 * MiB>>, <<99, 50 * MiB>> >>

\* C26: every input that passes validation (and, for an upload, the size
\* check) on a node that has its client issues exactly one storage request,
\* get-object on a download node and put-object on an upload node, with the
\* resolved bucket and filename as Bucket and Key, and never a second one;
\* an input that fails validation or the size check issues none.
C26_OneStorageRequest ==
    \A r \in Slots :
        /\ Len(req[r].commands) <= 1
        /\ (req[r].pc # "idle" /\ req[r].caught # NullClientError) =>
            IF FailsValidation(req[r])
                \/ (nodeType = "upload" /\ PayloadOversized(req[r]))
            THEN req[r].commands = <<>>
            ELSE /\ Len(req[r].commands) = 1
                 /\ req[r].commands[1].type =
                        (IF nodeType = "download" THEN "GetObject"
                         ELSE "PutObject")
                 /\ req[r].commands[1].input["Bucket"] =
                        ExpectedBucket(req[r])
                 /\ req[r].commands[1].input["Key"] =
                        ExpectedFilename(req[r])

\* a status is a progress status
IsProgress(st) ==
    /\ "key" \in DOMAIN st.text
    /\ st.text.key = "aws.status.download-progress"

RECURSIVE ProgressCounts(_)
\* the megabyte counts of the progress statuses among statuses, in order
ProgressCounts(statuses) ==
    IF statuses = <<>> THEN <<>>
    ELSE IF IsProgress(statuses[1])
    THEN <<statuses[1].text.arg.size>> \o ProgressCounts(Tail(statuses))
    ELSE ProgressCounts(Tail(statuses))

\* the count reported last by a call, 0 before its first progress status
LastReported(f) ==
    LET counts == ProgressCounts(f.statuses)
    IN  IF counts = <<>> THEN 0 ELSE counts[Len(counts)]

\* C27: within one download a progress status is written after a chunk
\* exactly when the whole-megabyte count of the bytes received so far is
\* greater than the count reported last; it carries that count; the counts
\* reported are strictly increasing; the chunk that exceeds the limit
\* writes none.
C27_ProgressStatus ==
    /\ [](\A r \in Slots :
            LET counts == ProgressCounts(req[r].statuses)
            IN  \A i, j \in 1..Len(counts) : i < j => counts[i] < counts[j])
    /\ [][\A r \in Slots :
            (nodeType = "download" /\ req[r].pc = "streaming"
                /\ req'[r].received = req[r].received + 1) =>
                LET mb == Delivered(req'[r]) \div MiB
                IN  IF Delivered(req'[r]) > 100 * MiB
                    THEN ProgressCounts(req'[r].statuses) =
                            ProgressCounts(req[r].statuses)
                    ELSE IF mb > LastReported(req[r])
                    THEN /\ req'[r].statuses =
                                Append(req[r].statuses, StatusProgress(mb))
                         /\ status' = StatusProgress(mb)
                    ELSE req'[r].statuses = req[r].statuses]_vars

\* three chunks arrived and only the one that crossed the first megabyte
\* reported progress
C27_Witness ==
    \E r \in Slots :
        /\ req[r].pc = "streaming"
        /\ req[r].received = 3
        /\ Len(req[r].chunks) = 3
        /\ ProgressCounts(req[r].statuses) = <<1>>

\* progress was reported twice, for 50 and for 100 megabytes
C27_TwoReports ==
    \E r \in Slots : ProgressCounts(req[r].statuses) = <<50, 100>>

\* C28: per received chunk the download accumulates, then checks the limit:
\* when the cumulative size is compared against the 100 MiB ceiling the
\* chunk has been counted and has been added to the accumulation buffer.
C28_AccumulateThenCheck ==
    \A r \in Slots :
        nodeType = "download" =>
            /\ req[r].totalSize = Delivered(req[r])
            /\ Len(req[r].chunks) = req[r].received

\* C28, amended: per received chunk the download counts, then checks, then
\* stores or aborts: the length of the chunk is added to the cumulative size
\* before that size is compared against the 100 MiB ceiling, so the limit
\* error occurs exactly at the chunk with which the size passes the ceiling;
\* the chunk is added to the accumulation buffer after the comparison, and
\* only when the ceiling is not exceeded.
C28_CountThenCheckThenStore ==
    \A r \in Slots :
        nodeType = "download" =>
            /\ req[r].totalSize = Delivered(req[r])
            /\ (req[r].caught = SizeLimitError) <=>
                    (req[r].totalSize > 100 * MiB)
            /\ Len(req[r].chunks) =
                    (IF req[r].totalSize > 100 * MiB
                     THEN req[r].received - 1 ELSE req[r].received)

\* the second chunk took the size over the ceiling: it is counted and is
\* not in the buffer
C28_Witness ==
    \E r \in Slots :
        /\ req[r].caught = SizeLimitError
        /\ req[r].received = 2
        /\ Len(req[r].chunks) = 1
        /\ req[r].totalSize = 100 * MiB + 1

\* C29: in every reachable state of a download the bytes held in the
\* accumulation buffer of the request total at most 100 MiB, and its running
\* byte counter equals the sum of the lengths of all chunks it received.
C29_BufferWithinBudget ==
    \A r \in Slots :
        nodeType = "download" =>
            /\ RunsLen(ConcatRuns(req[r].chunks)) <= 100 * MiB
            /\ req[r].totalSize = Delivered(req[r])
            /\ req[r].totalSize >= RunsLen(ConcatRuns(req[r].chunks))

\* the buffer holds exactly 100 MiB and the counter is one byte over
C29_Witness ==
    \E r \in Slots :
        /\ nodeType = "download"
        /\ RunsLen(ConcatRuns(req[r].chunks)) = 100 * MiB
        /\ req[r].totalSize = 100 * MiB + 1

\* C30: a download whose body stream never ends terminates anyway: when the
\* stream keeps delivering non-empty chunks, the request ends after finitely
\* many chunks with the size-limit error and one emitted error message,
\* however many zero-length chunks the stream delivers in between.
C30_UnendingStreamTerminates ==
    \A r \in Slots :
        (req[r].pc = "streaming") ~>
            (/\ req[r].pc = "done"
             /\ req[r].caught = SizeLimitError
             /\ Len(req[r].sent) = 1
             /\ req[r].sent[1]["payload"] = Null)

\* the request ended with the size-limit error at its fifth chunk, two of
\* them zero-length, with bytes of the stream still to come
C30_Witness ==
    \E r \in Slots :
        /\ req[r].pc = "done"
        /\ req[r].caught = SizeLimitError
        /\ req[r].received = 5
        /\ Len(req[r].chunks) = 4
        /\ RunsLen(ConcatRuns(req[r].chunks)) = 80 * MiB
        /\ req[r].rest # <<>>

\* C31: every request that passed validation (and, for an upload, the size
\* check) eventually emits its output message, on a node that is not closed
\* whose storage calls settle and whose body streams end or fail.
C31_RunsToCompletion ==
    \A r \in Slots :
        (/\ req[r].pc # "idle"
         /\ ~FailsValidation(req[r])
         /\ ~(nodeType = "upload" /\ PayloadOversized(req[r])))
            ~> (req[r].pc = "done" /\ Len(req[r].sent) = 1)

\* the same for the requests whose handler reached its storage call
C31_InFlightCompletes ==
    \A r \in Slots :
        InFlight(req[r]) ~> (req[r].pc = "done" /\ Len(req[r].sent) = 1)

\* what the storage answered to the call of frame f: the failure it caught,
\* or else the response and the object it streamed
Answer(f) ==
    IF f.caught # Undefined THEN <<f.caught>>
    ELSE <<f.caught, f.response, f.object>>

Unserializable(f) ==
    /\ ~PayloadMissing(f)
    /\ IsStringified(f.orig["payload"])
    /\ JsonThrows(f.orig["payload"])

\* C33: an upload whose payload cannot be normalized is handled as a failure
\* of that one request: the handler reports an error on the node's error
\* channel for the message and does not end with an uncaught exception.
C33_NormalizationFailureIsHandled ==
    \A r \in Slots :
        (/\ nodeType = "upload"
         /\ Done(r)
         /\ ~FailsValidation(req[r])
         /\ Unserializable(req[r])) =>
            /\ req[r].uncaught = Undefined
            /\ Len(req[r].errors) = 1

\* C34: once the close handler has run, an input event delivered to the node
\* issues no storage request, writes no status and emits no message.
C34_NoInputAfterClose ==
    [][\A r \in Slots :
        (closed /\ req[r].pc = "idle" /\ req'[r].pc # "idle") =>
            /\ req'[r].commands = <<>>
            /\ req'[r].statuses = <<>>
            /\ req'[r].sent = <<>>
            /\ status' = status]_vars

\* the blue indicators: downloading, uploading, progress
IsBlue(st) == st.fill = "blue"

\* C35: when an initialized node has no request in flight its status is
\* cleared or the red error indicator, never a blue one; the last status a
\* request wrote is cleared when it succeeded and the red error indicator
\* when it failed, and a request that succeeded, failed validation or failed
\* in flight did write one.
C35_StatusAtRest ==
    /\ (registered /\ \A r \in Slots : ~InFlight(req[r])) =>
            (status \in {StatusCleared, StatusError} /\ ~IsBlue(status))
    /\ \A r \in Slots :
        Done(r) =>
            /\ req[r].statuses # <<>> =>
                    req[r].statuses[Len(req[r].statuses)] =
                        (IF req[r].outcome = "success" THEN StatusCleared
                         ELSE StatusError)
            /\ req[r].outcome \in {"success", "rejected", "failed"} =>
                    req[r].statuses # <<>>

\* a download that reported progress has succeeded and the node is at rest
\* with its status cleared
C35_Witness ==
    \E r \in Slots :
        /\ Done(r)
        /\ req[r].outcome = "success"
        /\ \E i \in 1..Len(req[r].statuses) : req[r].statuses[i] = StatusProgress(50)
        /\ status = StatusCleared
        /\ ~closed

\* a request failed in flight after its blue indicator and the node is at
\* rest with the red error indicator
C35_FailedAtRest ==
    \E r \in Slots :
        /\ Done(r)
        /\ req[r].outcome = "failed"
        /\ IsBlue(req[r].statuses[1])
        /\ status = StatusError

\* C36: a request rejected before the storage call, for a missing bucket,
\* filename or payload or for an upload over the size limit, leaves its
\* message as it was delivered: no field is written, added or removed.
C36_RejectionLeavesMessage ==
    \A r \in Slots :
        (Done(r) /\ (FailsValidation(req[r])
                        \/ (nodeType = "upload" /\ PayloadOversized(req[r])))) =>
            /\ req[r].outcome = "rejected"
            /\ req[r].msg = req[r].orig

\* an upload over the size limit was rejected on a node with a configured
\* bucket and filename, and its message, which names neither, still does not
C36_Witness ==
    \E r \in Slots :
        /\ nodeType = "upload"
        /\ Done(r)
        /\ PayloadOversized(req[r])
        /\ IsSet(node.bucket) /\ IsSet(node.filename)
        /\ req[r].errors # <<>>
        /\ DOMAIN req[r].msg = {"payload"}

\* a download without a filename was rejected and its message still carries
\* the payload and the error it arrived with
C36_DownloadRejected ==
    \E r \in Slots :
        /\ nodeType = "download"
        /\ Done(r)
        /\ Missing(ExpectedFilename(req[r]))
        /\ ~Missing(ExpectedBucket(req[r]))
        /\ Get(req[r].msg, "error") = PriorError
        /\ "filename" \notin DOMAIN req[r].msg

\* the payload of the call is present and empty: the empty text or a Buffer
\* of no bytes
PayloadEmpty(f) ==
    /\ ~PayloadMissing(f)
    /\ f.orig["payload"] \in {Str(<<>>), Buf(<<>>)}

\* C37: the upload payload check rejects exactly the null and the absent
\* payload: with a bucket and a filename resolved, the no-payload error is
\* reported iff the payload is null or absent, and a present but empty
\* payload is accepted, issues one put-object request with a body of zero
\* bytes and, when the call resolves, emits the success receipt.
C37_EmptyPayloadAccepted ==
    \A r \in Slots :
        (/\ nodeType = "upload"
         /\ req[r].pc # "idle"
         /\ ~Missing(ExpectedBucket(req[r]))
         /\ ~Missing(ExpectedFilename(req[r]))) =>
            /\ (req[r].errors = <<I18n("aws.error.no-payload-specified", NoArg)>>)
                    <=> PayloadMissing(req[r])
            /\ (PayloadEmpty(req[r]) /\ req[r].caught # NullClientError) =>
                    /\ req[r].outcome # "rejected"
                    /\ Len(req[r].commands) = 1
                    /\ req[r].commands[1].type = "PutObject"
                    /\ IsBuffer(req[r].commands[1].input["Body"])
                    /\ ByteLength(req[r].commands[1].input["Body"]) = 0
                    /\ req[r].response # Undefined =>
                            /\ req[r].outcome = "success"
                            /\ req[r].sent = <<req[r].msg>>
                            /\ ReceiptOf(req[r]).success = Bool(TRUE)
                            /\ ReceiptOf(req[r]).key = ExpectedFilename(req[r])
                            /\ ReceiptOf(req[r]).etag =
                                    req[r].response["ETag"]

\* an upload of the empty text was stored and its receipt emitted
C37_Witness ==
    \E r \in Slots :
        /\ nodeType = "upload"
        /\ Done(r)
        /\ Get(req[r].orig, "payload") = Str(<<>>)
        /\ req[r].outcome = "success"
        /\ Len(req[r].sent) = 1

\* an upload of a Buffer of no bytes was stored and its receipt emitted
C37_EmptyBufferStored ==
    \E r \in Slots :
        /\ nodeType = "upload"
        /\ Done(r)
        /\ Get(req[r].orig, "payload") = Buf(<<>>)
        /\ req[r].outcome = "success"
        /\ Len(req[r].sent) = 1

=============================================================================
